---- MODULE Spec2Model ----
(***************************************************************************)
(* Model of kosh-profile-tracker:                                          *)
(*   - the two definitions of scrapeProfile (the first one, desktop ->     *)
(*     mobile -> nitter, and the improved one, nitter -> mobile ->         *)
(*     desktop), their tryMode and their extraction loops;                 *)
(*   - the two definitions of normalizeCount;                              *)
(*   - the report generator and the handler analyzeProfile.                *)
(* Spec follows a call of scrapeProfile and the answer of analyzeProfile,   *)
(* SpecLoop a single call of tryMode under every option, SpecCount a call  *)
(* of normalizeCount, SpecMerge the merge of two raw batches in both       *)
(* orders, SpecReport a call of generateReport for a Twitter profile, and  *)
(* SpecAnalyze a request handled by analyzeProfile.                        *)
(* Strings are sequences of one-character strings.                         *)
(***************************************************************************)
EXTENDS Integers, Sequences, FiniteSets, TLC

VARIABLES
    def,              \* which definition of scrapeProfile / normalizeCount runs
    ncRaw,            \* normalizeCount: the argument raw
    ncOut,            \* normalizeCount: the value returned
    ncPc,             \* normalizeCount: "call" before, "ret" after the call
    lookbackDays, maxScrolls, timeoutMs, noNewThreshold, minTweets,   \* options
    nitterCount,      \* NITTER_INSTANCES.length
    now,              \* Date.now()
    startTime,        \* const startTime = Date.now()
    browser,          \* "none", "open", "closed"
    pc,               \* position of scrapeProfile and of analyzeProfile after it
    inst,             \* index of the Nitter instance of the for loop
    collected,        \* first definition: let collected
    allTweets,        \* improved definition: let allTweets
    bestResult,       \* improved definition: let bestResult
    tm,               \* tryMode: "idle" (not running), "loop", "ret" (returned)
    modeLabel,        \* label of the current or last tryMode call
    page,             \* the page of tryMode: "none", "open", "closed"
    tweets, seen, reachedCutoff, scrollCount, consecutiveNoNew, prevCount,
    cutoffDate,       \* locals of the extraction loop
    broke,            \* the loop was left by a break
    lastResult,       \* the value tryMode returned
    result,           \* the value scrapeProfile returned
    response,         \* what analyzeProfile answered
    maxYield,         \* history: most posts of a tryMode that returned success (-1: none yet)
    swallowed,        \* history: an exception was caught inside the running attempt
    navs,             \* history: page.goto calls of the running attempt
    bodyRuns,         \* history: executions of the loop body in the running attempt
    oldKeys,          \* history: keys first fetched with a time before cutoffDate
    fetches,          \* history: outcomes of the batch requests of the last execution of the body
    req,              \* analyzeProfile: req.body
    data,             \* the argument of the function under study (profileData, raw batches)
    report,           \* the report built by generateReport / analyzeProfile
    merged,           \* the final collections of two orderings of the same batches
    calls,            \* history: the services analyzeProfile has called
    frontEnd,         \* the front end in use: "react" (App.js) or "script" (script.js)
    handle,           \* the trimmed text of the input field profileHandle
    loading,          \* the analyze button is disabled and the loading indicator shown
    sent,             \* history: the handles of the analyze requests, in the order sent
    inFlight,         \* the positions in sent of the requests that have not settled
    shows             \* history: the notifications shown, in order

ncVars == <<ncRaw, ncOut, ncPc>>

anVars == <<req, data, report, merged, calls>>

uiVars == <<frontEnd, handle, loading, sent, inFlight, shows>>

optVars == <<lookbackDays, maxScrolls, timeoutMs, noNewThreshold, minTweets, nitterCount, startTime>>

loopVars == <<tweets, seen, reachedCutoff, scrollCount, consecutiveNoNew, prevCount, cutoffDate, broke>>

histVars == <<maxYield, swallowed, navs, bodyRuns, oldKeys, fetches>>

ctlVars == <<now, browser, pc, inst, collected, allTweets, bestResult, tm, modeLabel, page,
             lastResult, result, response>>

Defs == {"first", "improved"}

(***************************************************************************)
(* Bounds of the inputs of normalizeCount.                                 *)
(***************************************************************************)
MaxStrLen == 3

Alphabet == {"0", "1", "5", ",", ".", "K", "m", "b", " ", "x"}

Null == <<"null">>

RECURSIVE StringsUpTo(_)
StringsUpTo(n) ==
    IF n = 0 THEN {<<>>}
    ELSE LET shorter == StringsUpTo(n - 1)
         IN shorter \cup {Append(s, c) : s \in {t \in shorter : Len(t) = n - 1}, c \in Alphabet}

\* The strings of the specification's examples and a few of the same shapes.
ExampleStrings ==
    { <<"1", ",", "2", "3", "4">>, <<"1", ".", "2", "K">>, <<"2", "M">>,
      <<"1", ".", "5", "B">>, <<"1", "2", ".", "5", "k">>, <<"3", " ", "m">>,
      <<" ", "1", ",", "0", "0", "0", " ">>, <<"1", ".", "2", ".", "3">> }

CountInputs == {Null} \cup StringsUpTo(MaxStrLen) \cup ExampleStrings

(***************************************************************************)
(* Character classes and string helpers of the regular expressions.        *)
(***************************************************************************)
Digits == {"0", "1", "2", "3", "4", "5", "6", "7", "8", "9"}

DigitVal(c) ==
    CASE c = "0" -> 0 [] c = "1" -> 1 [] c = "2" -> 2 [] c = "3" -> 3 [] c = "4" -> 4
      [] c = "5" -> 5 [] c = "6" -> 6 [] c = "7" -> 7 [] c = "8" -> 8 [] c = "9" -> 9

IsSpace(c) == c = " "

ToUpperChar(c) ==
    CASE c = "k" -> "K" [] c = "m" -> "M" [] c = "b" -> "B" [] c = "x" -> "X" [] OTHER -> c

ToLowerChar(c) ==
    CASE c = "K" -> "k" [] c = "M" -> "m" [] c = "B" -> "b" [] c = "X" -> "x" [] OTHER -> c

ToLowerCase(s) == [i \in 1..Len(s) |-> ToLowerChar(s[i])]

RECURSIVE Filter(_, _)
Filter(s, keep) ==
    IF s = <<>> THEN <<>>
    ELSE IF Head(s) \in keep THEN <<Head(s)>> \o Filter(Tail(s), keep)
    ELSE Filter(Tail(s), keep)

RECURSIVE Remove(_, _)
Remove(s, drop) ==
    IF s = <<>> THEN <<>>
    ELSE IF Head(s) \in drop THEN Remove(Tail(s), drop)
    ELSE <<Head(s)>> \o Remove(Tail(s), drop)

RECURSIVE TrimLeft(_)
TrimLeft(s) == IF s # <<>> /\ IsSpace(Head(s)) THEN TrimLeft(Tail(s)) ELSE s

RECURSIVE TrimRight(_)
TrimRight(s) ==
    IF s # <<>> /\ IsSpace(s[Len(s)]) THEN TrimRight(SubSeq(s, 1, Len(s) - 1)) ELSE s

Trim(s) == TrimRight(TrimLeft(s))

RECURSIVE Pow10(_)
Pow10(e) == IF e = 0 THEN 1 ELSE 10 * Pow10(e - 1)

RECURSIVE DigitsValue(_)
DigitsValue(s) == IF s = <<>> THEN 0 ELSE 10 * DigitsValue(SubSeq(s, 1, Len(s) - 1)) + DigitVal(s[Len(s)])

RECURSIVE DigitPrefixLen(_)
DigitPrefixLen(s) == IF s # <<>> /\ Head(s) \in Digits THEN 1 + DigitPrefixLen(Tail(s)) ELSE 0

(***************************************************************************)
(* JavaScript numbers.  A parsed decimal is m / 10^e (e may be negative:   *)
(* m followed by -e zeros), or NaN.  An integer result is m * 10^z with m  *)
(* not a multiple of 10 (z = 0 when m = 0), so that 5e9 needs no 64 bits.  *)
(***************************************************************************)
NaN == [nan |-> TRUE, m |-> 0, e |-> 0]

Dec(m, e) == [nan |-> FALSE, m |-> m, e |-> e]

\* parseFloat: the longest prefix that is a decimal literal; NaN without one.
ParseFloat(s) ==
    LET ip == DigitPrefixLen(s)
        rest == SubSeq(s, ip + 1, Len(s))
        fp == IF rest # <<>> /\ Head(rest) = "." THEN DigitPrefixLen(Tail(rest)) ELSE 0
    IN IF ip = 0 /\ fp = 0 THEN NaN
       ELSE Dec(DigitsValue(SubSeq(s, 1, ip)) * Pow10(fp) + DigitsValue(SubSeq(s, ip + 2, ip + 1 + fp)), fp)

\* Number(s) for a non-empty s: the whole string must be a decimal literal.
ToNumber(s) ==
    LET ip == DigitPrefixLen(s)
        rest == SubSeq(s, ip + 1, Len(s))
        fp == IF rest # <<>> /\ Head(rest) = "." THEN DigitPrefixLen(Tail(rest)) ELSE 0
        used == ip + (IF rest # <<>> /\ Head(rest) = "." THEN 1 + fp ELSE 0)
    IN IF (ip = 0 /\ fp = 0) \/ used # Len(s) THEN NaN ELSE ParseFloat(s)

\* num *= 10^k
TimesPow10(v, k) == IF v.nan THEN NaN ELSE Dec(v.m, v.e - k)

RECURSIVE Canon(_, _)
Canon(m, z) ==
    IF m = 0 THEN [nan |-> FALSE, m |-> 0, z |-> 0]
    ELSE IF m % 10 = 0 THEN Canon(m \div 10, z + 1)
    ELSE [nan |-> FALSE, m |-> m, z |-> z]

NaNInt == [nan |-> TRUE, m |-> 0, z |-> 0]

\* Math.round: the nearest integer, a tie going up; NaN stays NaN.
MathRound(v) ==
    IF v.nan THEN NaNInt
    ELSE IF v.e <= 0 THEN Canon(v.m, 0 - v.e)
    ELSE Canon((2 * v.m + Pow10(v.e)) \div (2 * Pow10(v.e)), 0)

Int0(n) == Canon(n, 0)

(***************************************************************************)
(* normalizeCount, the first definition.                                   *)
(***************************************************************************)
NumChars == Digits \cup {",", "."}

SuffixCharsFirst == {"K", "M", "k", "m", "B", "b"}

\* cleaned.match(/^([\d,.]+)([KMkMmBb])?$/): <<m[1], m[2]>>, or <<>> for null.
MatchCount(cleaned, suffixes) ==
    LET n == Len(cleaned)
        allNum(k) == k >= 1 /\ \A i \in 1..k : cleaned[i] \in NumChars
    IN IF allNum(n) THEN <<cleaned, <<>>>>
       ELSE IF n >= 2 /\ allNum(n - 1) /\ cleaned[n] \in suffixes
            THEN <<SubSeq(cleaned, 1, n - 1), <<cleaned[n]>>>>
       ELSE <<>>

\* The decimal exponent of the factor: 1e3, 1e6, 1e9, or 1.
MultiplierFirst(suf) ==
    IF suf = <<"K">> THEN 3
    ELSE IF suf = <<"M">> THEN 6
    ELSE IF suf = <<"B">> THEN 9
    ELSE 0

NormalizeCountFirst(raw) ==
    IF raw = Null THEN Int0(0)
    ELSE LET s == Trim(raw) IN
         IF s = <<>> THEN Int0(0)
         ELSE LET cleaned == Remove(Remove(s, {","}), {" "})
                  m == MatchCount(cleaned, SuffixCharsFirst)
              IN IF m = <<>>
                 THEN LET digits == Filter(cleaned, Digits \cup {"."})
                      IN IF digits # <<>> THEN MathRound(ToNumber(digits)) ELSE Int0(0)
                 ELSE LET num == ParseFloat(Remove(m[1], {","}))
                          suf == [i \in 1..Len(m[2]) |-> ToUpperChar(m[2][i])]
                      IN MathRound(TimesPow10(num, MultiplierFirst(suf)))

(***************************************************************************)
(* normalizeCount, the improved definition.                                *)
(***************************************************************************)
SuffixCharsImproved == {"k", "m", "b", "K", "M", "B"}

MultiplierImprovedThousand(suffix) == IF suffix = <<>> THEN 0 ELSE 3

\* The decimal exponent of the factor: 1000, 1000000, 1000000000, or 1.
MultiplierImproved(suffix) ==
    IF suffix = <<"k">> THEN 3
    ELSE IF suffix = <<"m">> THEN 6
    ELSE IF suffix = <<"b">> THEN 9
    ELSE 0

NormalizeCountImproved(raw) ==
    IF raw = Null \/ raw = <<>> THEN Int0(0)
    ELSE LET s == ToLowerCase(Trim(raw)) IN
         IF s = <<>> \/ s = <<"0">> THEN Int0(0)
         ELSE LET cleaned == Remove(Remove(s, {","}), {" "})
                  match == MatchCount(cleaned, SuffixCharsImproved)
              IN IF match = <<>>
                 THEN LET digits == Filter(cleaned, Digits \cup {"."})
                      IN IF digits # <<>> THEN MathRound(ParseFloat(digits)) ELSE Int0(0)
                 ELSE LET num == ParseFloat(match[1])
                          suffix == ToLowerCase(match[2])
                      IN MathRound(TimesPow10(num, MultiplierImproved(suffix)))

normalizeCount(d, raw) ==
    IF d = "first" THEN NormalizeCountFirst(raw) ELSE NormalizeCountImproved(raw)

(***************************************************************************)
(* Posts.  A raw record is what the page returns for one tweet: its        *)
(* permalink (never empty: both extractors skip an element without href)   *)
(* and its time string.  A time string is an ISO date (stamp t), the empty *)
(* string, or a string Date cannot parse.  One tick is the unit of all     *)
(* times: Date.now(), timeoutMs, the stamps and lookbackDays.              *)
(***************************************************************************)
MaxPosts == 2

Permalinks == 1..MaxPosts

\* The post with permalink p was published at tick p.
Stamp(p) == p

Iso(t) == [s |-> "iso", t |-> t]

EmptyTime == [s |-> "empty", t |-> 0]

BadTime == [s |-> "bad", t |-> 0]

\* The page renders the time of a post as an ISO date, as a text Date cannot
\* parse, or not at all.
TimeStrs(p) == {EmptyTime, BadTime, Iso(Stamp(p))}

RawRecords == UNION {{[permalink |-> p, time |-> t] : t \in TimeStrs(p)} : p \in Permalinks}

\* What extractTweetsFromPage / extractBatchFromPage can return: records with
\* pairwise distinct permalinks (the extractors keep a set of the hrefs).
Batches ==
    {<<>>} \cup {<<r>> : r \in RawRecords}
      \cup UNION {{<<r1, r2>> : r2 \in {r \in RawRecords : r.permalink # r1.permalink}} : r1 \in RawRecords}

KeysOf(list) == {list[i].permalink : i \in 1..Len(list)}

(***************************************************************************)
(* Date parsing in the extraction loops.                                   *)
(***************************************************************************)
NullDate == [kind |-> "null", t |-> 0]

InvalidDate == [kind |-> "invalid", t |-> 0]

ValidDate(t) == [kind |-> "valid", t |-> t]

NewDate(time) == IF time.s = "iso" THEN ValidDate(time.t) ELSE InvalidDate

\* dateObj = t.time ? new Date(t.time) : null
ParseDateFirst(time) == IF time.s = "empty" THEN NullDate ELSE NewDate(time)

\* if (t.time) { dateObj = new Date(t.time); if (isNaN(dateObj.getTime())) dateObj = null; }
ParseDateImproved(time) ==
    IF time.s = "empty" THEN NullDate
    ELSE IF NewDate(time).kind = "invalid" THEN NullDate
    ELSE NewDate(time)

\* dateObj && dateObj < cutoffDate (a comparison with an Invalid Date is false)
BeforeCutoffDrop(dateObj, cutoff) == FALSE

BeforeCutoff(dateObj, cutoff) == dateObj.kind = "valid" /\ dateObj.t < cutoff

\* time: dateObj ? dateObj.toISOString() : (t.time || '')
PostTime(dateObj, time) == IF dateObj.kind = "valid" THEN Iso(dateObj.t) ELSE time

MakePost(t, dateObj) == [permalink |-> t.permalink, time |-> PostTime(dateObj, t.time)]

\* const key = t.permalink || ...: the permalink, which is never empty.
BatchKey(t) == t.permalink

(***************************************************************************)
(* The processing of one batch.  st = [tweets, seen, reachedCutoff, threw] *)
(***************************************************************************)
SeenHasNever(seenKeys, key) == FALSE

\* if (seen.has(key)) continue
SeenHas(seenKeys, key) == key \in seenKeys

ProcessOneImproved(st, t, cutoff) ==
    IF SeenHas(st.seen, BatchKey(t)) THEN st
    ELSE LET st1 == [st EXCEPT !.seen = @ \cup {BatchKey(t)}]
             dateObj == ParseDateImproved(t.time)
         IN IF BeforeCutoff(dateObj, cutoff)
            THEN [st1 EXCEPT !.reachedCutoff = TRUE]
            ELSE [st1 EXCEPT !.tweets = Append(@, MakePost(t, dateObj))]

\* In the first definition dateObj stays an Invalid Date for an unparsable
\* string, and dateObj.toISOString() then throws a RangeError.
ProcessOneFirst(st, t, cutoff) ==
    IF SeenHas(st.seen, BatchKey(t)) THEN st
    ELSE LET st1 == [st EXCEPT !.seen = @ \cup {BatchKey(t)}]
             dateObj == ParseDateFirst(t.time)
         IN IF BeforeCutoff(dateObj, cutoff)
            THEN [st1 EXCEPT !.reachedCutoff = TRUE]
            ELSE IF dateObj.kind = "invalid"
            THEN [st1 EXCEPT !.threw = TRUE]
            ELSE [st1 EXCEPT !.tweets = Append(@, MakePost(t, dateObj))]

RECURSIVE ProcessBatch(_, _, _, _)
ProcessBatch(d, st, batch, cutoff) ==
    IF batch = <<>> \/ st.threw THEN st
    ELSE ProcessBatch(d,
                      IF d = "first" THEN ProcessOneFirst(st, Head(batch), cutoff)
                      ELSE ProcessOneImproved(st, Head(batch), cutoff),
                      Tail(batch), cutoff)

(***************************************************************************)
(* The final deduplication and sort of scrapeProfile.                      *)
(***************************************************************************)
\* const key = tweet.permalink || tweet.id || ...; if (!tweetMap.has(key)) tweetMap.set(key, tweet)
RECURSIVE Deduplicate(_, _)
Deduplicate(list, keys) ==
    IF list = <<>> THEN <<>>
    ELSE IF Head(list).permalink \in keys THEN Deduplicate(Tail(list), keys)
    ELSE <<Head(list)>> \o Deduplicate(Tail(list), keys \cup {Head(list).permalink})

\* a.time ? new Date(a.time).getTime() : 0
GetTime(post) ==
    IF post.time.s = "empty" THEN [nan |-> FALSE, ms |-> 0]
    ELSE IF post.time.s = "iso" THEN [nan |-> FALSE, ms |-> post.time.t]
    ELSE [nan |-> TRUE, ms |-> 0]

\* comparefn(a, b) = timeB - timeA; Array.prototype.sort reads a NaN as +0.
Compare(a, b) ==
    LET timeA == GetTime(a)
        timeB == GetTime(b)
    IN IF timeA.nan \/ timeB.nan THEN 0 ELSE timeB.ms - timeA.ms

\* Array.prototype.sort as V8 runs it on an array of fewer than 64 elements:
\* the initial run is counted (and reversed when strictly descending), then
\* the rest is inserted by binary insertion.  Positions are 1-based here.
RECURSIVE RunEnd(_, _, _)
RunEnd(arr, idx, isDescending) ==
    IF idx > Len(arr) THEN idx - 1
    ELSE LET order == Compare(arr[idx], arr[idx - 1])
         IN IF (isDescending /\ order >= 0) \/ (~isDescending /\ order < 0) THEN idx - 1
            ELSE RunEnd(arr, idx + 1, isDescending)

Reverse(arr) == [i \in 1..Len(arr) |-> arr[Len(arr) + 1 - i]]

\* <<array after the run is made, length of the run>>
CountAndMakeRun(arr) ==
    IF Len(arr) < 2 THEN <<arr, Len(arr)>>
    ELSE LET isDescending == Compare(arr[2], arr[1]) < 0
             runLength == RunEnd(arr, 3, isDescending)
         IN IF isDescending
            THEN <<Reverse(SubSeq(arr, 1, runLength)) \o SubSeq(arr, runLength + 1, Len(arr)), runLength>>
            ELSE <<arr, runLength>>

\* the binary search of BinaryInsertionSort over the positions left+1..right
RECURSIVE InsertionPoint(_, _, _, _)
InsertionPoint(arr, pivot, left, right) ==
    IF left >= right THEN left
    ELSE LET mid == left + ((right - left) \div 2)
         IN IF Compare(pivot, arr[mid + 1]) < 0
            THEN InsertionPoint(arr, pivot, left, mid)
            ELSE InsertionPoint(arr, pivot, mid + 1, right)

RECURSIVE BinaryInsertionSort(_, _)
BinaryInsertionSort(arr, start) ==
    IF start >= Len(arr) THEN arr
    ELSE LET pivot == arr[start + 1]
             left == InsertionPoint(arr, pivot, 0, start)
             moved == SubSeq(arr, 1, left) \o <<pivot>> \o SubSeq(arr, left + 1, start)
                        \o SubSeq(arr, start + 2, Len(arr))
         IN BinaryInsertionSort(moved, start + 1)

ArraySort(arr) ==
    LET run == CountAndMakeRun(arr)
    IN BinaryInsertionSort(run[1], run[2])

FinalTweets(list) == ArraySort(Deduplicate(list, {}))


(***************************************************************************)
(* scrapeProfile: bounds of the options and of the clock, and the          *)
(* constants of the two definitions.                                       *)
(***************************************************************************)
\* lookbackDays is 1..MaxLookback.
MaxLookback == 1

\* maxScrolls is 0..MaxScrollsOpt when tryMode is followed alone (SpecLoop).
MaxScrollsOpt == 2

\* maxScrolls is 0..MaxScrollsCalled when all of scrapeProfile is followed (Spec).
MaxScrollsCalled == 1

\* noNewThreshold is 1..MaxNoNew.
MaxNoNew == 2

\* timeoutMs is 1..MaxTimeout.
MaxTimeout == 1

\* minTweets is 1..MaxMinTweets.
MaxMinTweets == 2

\* Date.now() at the call: the newest post is of this tick.
StartClock == MaxPosts

\* NITTER_INSTANCES of the first definition, without options.nitterInstances.
NitterDefaultFirst == 4

\* NITTER_INSTANCES of the improved definition.
NitterImproved == 5

\* if (collected.length < 25)
FewDesktop == 25

\* if (!collected.length || collected.length < 50)
FewCollected == 50

\* if (collected.length >= 200) break
ManyCollected == 200

Elapsed == now - startTime

\* Date.now() - startTime > timeoutMs
TimedOut(elapsed, timeout) == elapsed > timeout

\* Date.now() - startTime > timeoutMs * 0.6
NitterBudgetSpent(elapsed, timeout) == 10 * elapsed > 6 * timeout

\* Date.now() - startTime < timeoutMs * 0.8
MobileInBudget(elapsed, timeout) == 10 * elapsed < 8 * timeout

\* Date.now() - startTime < timeoutMs * 0.9
DesktopInBudget(elapsed, timeout) == 10 * elapsed < 9 * timeout

\* Time passes at an await: by nothing or by one tick.  The clock stops one
\* tick after the deadline: no test of the code tells later times apart.
Advance == now' \in {now, IF now - startTime <= timeoutMs THEN now + 1 ELSE now}

Max(a, b) == IF a >= b THEN a ELSE b

(***************************************************************************)
(* tryMode.                                                                *)
(***************************************************************************)
NoResult == [tweets |-> <<>>, success |-> FALSE, error |-> ""]

\* return { tweets, success: true }
Returned(list) == [tweets |-> list, success |-> TRUE, error |-> ""]

CaughtKeepsTweets(list, message) == [tweets |-> list, success |-> FALSE, error |-> message]

\* catch (error) { ...; return { tweets: [], success: false, error: error.message } }
Caught(list, message) == [tweets |-> <<>>, success |-> FALSE, error |-> message]

NoLabel == <<"none", 0>>

NitterLabel(i) == <<"nitter", i>>

MobileLabel == <<"mobile", 0>>

DesktopLabel == <<"desktop", 0>>

\* The position of a strategy in the order of its definition of scrapeProfile.
Rank(d, label) ==
    IF label = NoLabel THEN 0
    ELSE IF d = "improved"
         THEN (IF label[1] = "nitter" THEN label[2]
               ELSE IF label = MobileLabel THEN NitterImproved + 1 ELSE NitterImproved + 2)
         ELSE (IF label = DesktopLabel THEN 1 ELSE IF label = MobileLabel THEN 2 ELSE 2 + label[2])

LoopIdle ==
    /\ tweets' = <<>>
    /\ seen' = {}
    /\ reachedCutoff' = FALSE
    /\ scrollCount' = 0
    /\ consecutiveNoNew' = 0
    /\ prevCount' = 0
    /\ broke' = FALSE

CloseSkipped(target) == target

\* await page.close() / await browser.close(): once the call has settled the
\* page or browser is not open any more.  tryMode awaits page.close() after the
\* loop and again in its catch block (saveSnapshot swallows its exceptions).
AfterClose(target) == "closed"

\* Overlays are removed on the pages of twitter.com: if (!isNitter), and in the
\* first definition if (!useMobile && !isNitter).
HasOverlayStep(d, label) ==
    IF d = "improved" THEN label[1] # "nitter" ELSE label = DesktopLabel

\* tryMode up to the call of the extraction loop: the page is created and set
\* up, page.goto is awaited, the overlays are removed (HasOverlayStep) in a
\* try/catch of its own, and the loop's locals are initialised.
TryModeStart(label) ==
    /\ tm = "idle"
    /\ browser = "open"
    /\ modeLabel' = label
    /\ Advance
    /\ bodyRuns' = 0
    /\ oldKeys' = {}
    /\ fetches' = <<>>
    /\ LoopIdle
    /\ UNCHANGED <<optVars, def, ncVars, anVars, uiVars, browser, maxYield, pc, inst, collected, allTweets,
                   bestResult, result, response>>
    /\ \E outcome \in {"newPage", "goto", "ok"} \cup (IF HasOverlayStep(def, label) THEN {"overlay"} ELSE {}) :
          /\ navs' = IF outcome = "newPage" THEN 0 ELSE 1
          /\ swallowed' = (outcome = "overlay")
          /\ IF outcome \in {"newPage", "goto"}
             THEN /\ tm' = "ret"
                  /\ lastResult' = Caught(<<>>, outcome)
                  /\ page' = IF outcome = "newPage" THEN "none" ELSE AfterClose("open")
                  /\ cutoffDate' = 0
             ELSE /\ tm' = "loop"
                  /\ lastResult' = NoResult
                  /\ page' = "open"
                  /\ cutoffDate' = now' - lookbackDays

(***************************************************************************)
(* The extraction loops.                                                   *)
(***************************************************************************)
\* The outcome of a batch request that throws (no record has permalink 0).
Throws == <<[permalink |-> 0, time |-> [s |-> "throws", t |-> 0]]>>

\* What a batch request did: it threw, returned no record, or returned records.
Outcome(batch) == IF batch = Throws THEN "throws" ELSE IF batch = <<>> THEN "empty" ELSE "records"

FreshOldKeys(batch) ==
    {batch[i].permalink : i \in {j \in 1..Len(batch) :
        /\ batch[j].permalink \notin seen
        /\ batch[j].time.s = "iso"
        /\ batch[j].time.t < cutoffDate}}

LoopState == [tweets |-> tweets, seen |-> seen, reachedCutoff |-> reachedCutoff, threw |-> FALSE]

\* while (!reachedCutoff && scrollCount < maxScrolls && consecutiveNoNew < noNewThreshold)
LoopCondImprovedNoCap(cut, scrolls, cap, noNew, threshold) == ~cut /\ noNew < threshold

LoopCondImproved(cut, scrolls, cap, noNew, threshold) ==
    ~cut /\ scrolls < cap /\ noNew < threshold

\* while (!reachedCutoff && scrolls < maxScrolls)
LoopCondFirst(cut, scrolls, cap) == ~cut /\ scrolls < cap

LoopCond ==
    IF def = "improved"
    THEN LoopCondImproved(reachedCutoff, scrollCount, maxScrolls, consecutiveNoNew, noNewThreshold)
    ELSE LoopCondFirst(reachedCutoff, scrollCount, maxScrolls)

\* runExtractionLoop: one execution of the body of the while loop.
LoopIterImproved ==
    /\ def = "improved"
    /\ tm = "loop"
    /\ ~broke
    /\ LoopCond
    /\ scrollCount' = scrollCount + 1
    /\ bodyRuns' = bodyRuns + 1
    /\ UNCHANGED <<optVars, def, ncVars, anVars, uiVars, browser, pc, inst, collected, allTweets, bestResult, tm,
                   modeLabel, page, cutoffDate, lastResult, result, response, maxYield, navs>>
    /\ IF TimedOut(Elapsed, timeoutMs)
       THEN /\ broke' = TRUE
            /\ fetches' = <<>>
            /\ UNCHANGED <<now, tweets, seen, reachedCutoff, consecutiveNoNew, prevCount,
                           swallowed, oldKeys>>
       ELSE /\ Advance
            /\ \E got \in Batches \cup {Throws} :
                 /\ fetches' = <<Outcome(got)>>
                 /\ IF got = Throws
                    THEN /\ swallowed' = TRUE
                         /\ UNCHANGED <<tweets, seen, reachedCutoff, consecutiveNoNew, prevCount,
                                        broke, oldKeys>>
                    ELSE LET st == ProcessBatch("improved", LoopState, got, cutoffDate)
                             currCount == Len(st.tweets)
                             noNew == IF currCount > prevCount THEN 0 ELSE consecutiveNoNew + 1
                             stop == (currCount >= minTweets /\ noNew >= noNewThreshold)
                                       \/ st.reachedCutoff
                         IN /\ tweets' = st.tweets
                            /\ seen' = st.seen
                            /\ reachedCutoff' = st.reachedCutoff
                            /\ oldKeys' = oldKeys \cup FreshOldKeys(got)
                            /\ consecutiveNoNew' = noNew
                            /\ prevCount' = IF currCount > prevCount THEN currCount ELSE prevCount
                            /\ broke' = stop
                            /\ UNCHANGED swallowed

\* runExtractionOnPage: the rest of the body once the batch is known.
\* threw: one of the guarded page calls of the iteration threw, and was caught.
\* An exception of the processing of the batch leaves the loop and is caught
\* by tryMode.
ProcessFirst(batch, threw) ==
    LET st == ProcessBatch("first", LoopState, batch, cutoffDate)
        currCount == Len(st.tweets)
        noNew == IF currCount > prevCount THEN 0 ELSE consecutiveNoNew + 1
        stop == noNew >= noNewThreshold \/ st.reachedCutoff
    IN IF st.threw
       THEN /\ tm' = "ret"
            /\ lastResult' = Caught(st.tweets, "process")
            /\ page' = "closed"
            /\ LoopIdle
            /\ oldKeys' = {}
            /\ swallowed' = (swallowed \/ threw)
       ELSE /\ tweets' = st.tweets
            /\ seen' = st.seen
            /\ reachedCutoff' = st.reachedCutoff
            /\ oldKeys' = oldKeys \cup FreshOldKeys(batch)
            /\ consecutiveNoNew' = noNew
            /\ prevCount' = IF currCount > prevCount THEN currCount ELSE prevCount
            /\ broke' = stop
            /\ scrollCount' = scrollCount + 1
            /\ UNCHANGED <<tm, page, lastResult>>
            /\ swallowed' = (swallowed \/ threw)

\* runExtractionOnPage: one execution of the body of the while loop.  When the
\* first batch is empty (or its request threw) the page is scrolled and the
\* batch is requested again.
LoopIterFirst ==
    /\ def = "first"
    /\ tm = "loop"
    /\ ~broke
    /\ LoopCond
    /\ bodyRuns' = bodyRuns + 1
    /\ UNCHANGED <<optVars, def, ncVars, anVars, uiVars, browser, pc, inst, collected, allTweets, bestResult,
                   modeLabel, cutoffDate, result, response, maxYield, navs>>
    /\ IF TimedOut(Elapsed, timeoutMs)
       THEN /\ broke' = TRUE
            /\ scrollCount' = scrollCount + 1
            /\ fetches' = <<>>
            /\ UNCHANGED <<now, tweets, seen, reachedCutoff, consecutiveNoNew, prevCount,
                           swallowed, oldKeys, tm, page, lastResult>>
       ELSE /\ Advance
            /\ \E first \in Batches \cup {Throws} :
                 IF first # Throws /\ first # <<>>
                 THEN /\ fetches' = <<Outcome(first)>>
                      /\ ProcessFirst(first, FALSE)
                 ELSE \E again \in Batches \cup {Throws} :
                         /\ fetches' = <<Outcome(first), Outcome(again)>>
                         /\ ProcessFirst(IF again = Throws THEN <<>> ELSE again,
                                         first = Throws \/ again = Throws)

\* The loop is left; tryMode closes the page and returns.  An exception of
\* page.close() is caught by tryMode like any other.
LoopReturn ==
    /\ tm = "loop"
    /\ broke \/ ~LoopCond
    /\ tm' = "ret"
    /\ page' = AfterClose(page)
    /\ LoopIdle
    /\ oldKeys' = {}
    /\ UNCHANGED <<optVars, def, ncVars, anVars, uiVars, fetches, now, browser, pc, inst, collected, allTweets, bestResult,
                   modeLabel, cutoffDate, result, response, swallowed, navs, bodyRuns>>
    /\ \/ /\ lastResult' = Returned(tweets)
          /\ maxYield' = Max(maxYield, Len(tweets))
       \/ /\ lastResult' = Caught(tweets, "close")
          /\ UNCHANGED maxYield

(***************************************************************************)
(* scrapeProfile.                                                          *)
(***************************************************************************)
NoReturn == [tweets |-> <<>>, accountExists |-> FALSE, protected |-> FALSE, reason |-> "no return"]

NoResponse == [status |-> 0, success |-> FALSE, reason |-> ""]

\* After tryMode's value is consumed its locals are gone.
TryModeIdle ==
    /\ tm' = "idle"
    /\ page' = "none"
    /\ lastResult' = NoResult
    /\ cutoffDate' = 0
    /\ swallowed' = FALSE
    /\ navs' = 0
    /\ bodyRuns' = 0
    /\ UNCHANGED <<tweets, seen, reachedCutoff, scrollCount, consecutiveNoNew, prevCount, broke,
                   oldKeys, maxYield, modeLabel>>

\* browser = await puppeteer.launch(...); an exception goes to the final catch,
\* which throws 'Failed to scrape Twitter profile'.
Launch ==
    /\ pc = "launch"
    /\ Advance
    /\ UNCHANGED <<optVars, def, ncVars, anVars, uiVars, fetches, collected, allTweets, bestResult, tm, modeLabel, page,
                   loopVars, lastResult, result, response, histVars>>
    /\ \/ /\ browser' = "open"
          /\ pc' = IF def = "improved" THEN "nitter" ELSE "desktop"
          /\ inst' = 1
       \/ /\ pc' = "thrown"
          /\ UNCHANGED <<browser, inst>>

\* The guard of one more Nitter attempt: the for loop has an instance left and
\* its deadline check does not break.
NitterGoesOn ==
    /\ inst <= nitterCount
    /\ IF def = "improved" THEN ~NitterBudgetSpent(Elapsed, timeoutMs)
       ELSE ~TimedOut(Elapsed, timeoutMs)

NitterTry ==
    /\ pc = "nitter"
    /\ NitterGoesOn
    /\ TryModeStart(NitterLabel(inst))

NitterEnd ==
    /\ pc = "nitter"
    /\ tm = "idle"
    /\ ~NitterGoesOn
    /\ pc' = IF def = "improved" THEN "mobile" ELSE "finish"
    /\ UNCHANGED <<optVars, def, ncVars, anVars, uiVars, fetches, now, browser, inst, collected, allTweets, bestResult, tm,
                   modeLabel, page, loopVars, lastResult, result, response, histVars>>

\* if (result.success && result.tweets.length > bestResult.tweets.length) bestResult = result
BetterResult(res, best) == res.success /\ Len(res.tweets) > Len(best.tweets)

\* if (bestResult.tweets.length >= minTweets) { allTweets = bestResult.tweets; break; }
EnoughTweets(n, wanted) == n >= wanted

\* What the improved definition keeps of the Nitter phase when the loop ends.
KeptFromNitter(best, wanted) == IF EnoughTweets(Len(best.tweets), wanted) THEN best.tweets ELSE <<>>

NitterResult ==
    /\ pc = "nitter"
    /\ tm = "ret"
    /\ TryModeIdle
    /\ UNCHANGED <<optVars, def, ncVars, anVars, uiVars, fetches, browser, result, response>>
    /\ IF def = "improved"
       THEN LET best == IF BetterResult(lastResult, bestResult) THEN lastResult ELSE bestResult
            IN /\ bestResult' = best
               /\ UNCHANGED collected
               /\ IF EnoughTweets(Len(best.tweets), minTweets)
                  THEN /\ allTweets' = KeptFromNitter(best, minTweets)
                       /\ pc' = "mobile"
                       /\ UNCHANGED <<inst, now>>
                  ELSE /\ Advance
                       /\ inst' = inst + 1
                       /\ UNCHANGED <<allTweets, pc>>
       ELSE LET got == IF lastResult.success /\ Len(lastResult.tweets) > Len(collected)
                       THEN lastResult.tweets ELSE collected
            IN /\ collected' = got
               /\ UNCHANGED <<allTweets, bestResult, now>>
               /\ IF Len(got) >= ManyCollected
                  THEN pc' = "finish" /\ UNCHANGED inst
                  ELSE inst' = inst + 1 /\ UNCHANGED pc

\* if (!collected.length || collected.length < 50) { for (const inst of NITTER_INSTANCES) ... }
AfterMobileFirst(list) == IF Len(list) = 0 \/ Len(list) < FewCollected THEN "nitter" ELSE "finish"

\* The guard of the mobile attempt.
MobileMayStartAlways(d, have, wanted, elapsed, timeout) == TRUE

MobileMayStart(d, have, wanted, elapsed, timeout) ==
    IF d = "improved" THEN have < wanted /\ MobileInBudget(elapsed, timeout)
    ELSE have < FewDesktop

MobileStep ==
    /\ pc = "mobile"
    /\ tm = "idle"
    /\ IF MobileMayStart(def, Len(IF def = "improved" THEN allTweets ELSE collected), minTweets,
                         Elapsed, timeoutMs)
       THEN TryModeStart(MobileLabel)
       ELSE /\ pc' = IF def = "improved" THEN "desktop" ELSE AfterMobileFirst(collected)
            /\ UNCHANGED <<optVars, def, ncVars, anVars, uiVars, fetches, now, browser, inst, collected, allTweets,
                           bestResult, tm, modeLabel, page, loopVars, lastResult, result,
                           response, histVars>>

MobileResult ==
    /\ pc = "mobile"
    /\ tm = "ret"
    /\ TryModeIdle
    /\ UNCHANGED <<optVars, def, ncVars, anVars, uiVars, fetches, now, browser, inst, bestResult, result, response>>
    /\ IF def = "improved"
       THEN /\ allTweets' = IF lastResult.success /\ Len(lastResult.tweets) > Len(allTweets)
                            THEN lastResult.tweets ELSE allTweets
            /\ pc' = "desktop"
            /\ UNCHANGED collected
       ELSE LET got == IF lastResult.success /\ Len(lastResult.tweets) > Len(collected)
                       THEN lastResult.tweets ELSE collected
            IN /\ collected' = got
               /\ pc' = AfterMobileFirst(got)
               /\ UNCHANGED allTweets

\* The guard of the desktop attempt; the first definition starts with it.
DesktopMayStart(d, have, wanted, elapsed, timeout) ==
    IF d = "improved" THEN have < wanted /\ DesktopInBudget(elapsed, timeout)
    ELSE TRUE

DesktopStep ==
    /\ pc = "desktop"
    /\ tm = "idle"
    /\ IF DesktopMayStart(def, Len(allTweets), minTweets, Elapsed, timeoutMs)
       THEN TryModeStart(DesktopLabel)
       ELSE /\ pc' = "finish"
            /\ UNCHANGED <<optVars, def, ncVars, anVars, uiVars, fetches, now, browser, inst, collected, allTweets,
                           bestResult, tm, modeLabel, page, loopVars, lastResult, result,
                           response, histVars>>

DesktopResult ==
    /\ pc = "desktop"
    /\ tm = "ret"
    /\ TryModeIdle
    /\ UNCHANGED <<optVars, def, ncVars, anVars, uiVars, fetches, now, browser, inst, bestResult, result, response>>
    /\ IF def = "improved"
       THEN /\ allTweets' = IF lastResult.success /\ Len(lastResult.tweets) > Len(allTweets)
                            THEN lastResult.tweets ELSE allTweets
            /\ pc' = "finish"
            /\ UNCHANGED collected
       ELSE /\ collected' = lastResult.tweets
            /\ pc' = "mobile"
            /\ UNCHANGED allTweets

\* The end of scrapeProfile: the tweets are deduplicated and sorted, the
\* profile page is read inside a try/catch of its own (the fields it fills
\* are not part of this model), the value is returned and the browser closed.
ReturnedProfile(list) ==
    [tweets |-> FinalTweets(list), accountExists |-> TRUE, protected |-> FALSE, reason |-> ""]

Finish ==
    /\ pc = "finish"
    /\ tm = "idle"
    /\ result' = ReturnedProfile(IF def = "improved" THEN allTweets ELSE collected)
    /\ browser' = AfterClose(browser)
    /\ pc' = "done"
    /\ UNCHANGED <<optVars, def, ncVars, anVars, uiVars, fetches, now, inst, collected, allTweets, bestResult, tm, modeLabel,
                   page, loopVars, lastResult, response, histVars>>

(***************************************************************************)
(* analyzeProfile, after twitterScraper.scrapeProfile.                     *)
(***************************************************************************)
Respond ==
    /\ pc \in {"done", "thrown"}
    /\ pc' = "responded"
    /\ UNCHANGED <<optVars, def, ncVars, anVars, uiVars, fetches, now, browser, inst, collected, allTweets, bestResult, tm,
                   modeLabel, page, loopVars, lastResult, result, histVars>>
    /\ \E pdfWritten \in BOOLEAN :
          response' =
             IF pc = "thrown"
             THEN [status |-> 500, success |-> FALSE, reason |-> "Analysis failed"]
             ELSE IF ~result.accountExists
             THEN [status |-> 200, success |-> FALSE,
                   reason |-> IF result.reason # "" THEN result.reason ELSE "Account not available"]
             ELSE IF pdfWritten
             THEN [status |-> 200, success |-> TRUE, reason |-> ""]
             ELSE [status |-> 500, success |-> FALSE, reason |-> "Analysis failed"]

(***************************************************************************)
(* The specifications.                                                     *)
(***************************************************************************)
vars == <<def, ncVars, anVars, uiVars, optVars, now, browser, pc, inst, collected, allTweets, bestResult, tm,
          modeLabel, page, loopVars, lastResult, result, response, histVars>>

NoOut == Int0(0)

ScraperIdle ==
    /\ inst = 0
    /\ collected = <<>>
    /\ allTweets = <<>>
    /\ bestResult = NoResult
    /\ tm = "idle"
    /\ modeLabel = NoLabel
    /\ page = "none"
    /\ tweets = <<>>
    /\ seen = {}
    /\ reachedCutoff = FALSE
    /\ scrollCount = 0
    /\ consecutiveNoNew = 0
    /\ prevCount = 0
    /\ cutoffDate = 0
    /\ broke = FALSE
    /\ lastResult = NoResult
    /\ result = NoReturn
    /\ response = NoResponse
    /\ maxYield = -1
    /\ swallowed = FALSE
    /\ navs = 0
    /\ bodyRuns = 0
    /\ oldKeys = {}
    /\ fetches = <<>>

\* analyzeProfile and the report generator are not under study.
\* No front end is under study.
UiIdle ==
    /\ frontEnd = "none"
    /\ handle = ""
    /\ loading = FALSE
    /\ sent = <<>>
    /\ inFlight = {}
    /\ shows = <<>>

AnalyzerIdle ==
    /\ UiIdle
    /\ req = Null
    /\ data = Null
    /\ report = Null
    /\ merged = Null
    /\ calls = {}

\* scrapeProfile is called; Date.now() is StartClock.  The loops run at most
\* MaxScrollsCalled times per attempt, so noNewThreshold is left at 1.
Init ==
    /\ def \in Defs
    /\ lookbackDays \in 1..MaxLookback
    /\ maxScrolls \in 0..MaxScrollsCalled
    /\ timeoutMs \in 1..MaxTimeout
    /\ noNewThreshold = 1
    /\ minTweets \in (IF def = "improved" THEN 1..MaxMinTweets ELSE {FewCollected})
    /\ nitterCount = (IF def = "improved" THEN NitterImproved ELSE NitterDefaultFirst)
    /\ now = StartClock
    /\ startTime = StartClock
    /\ pc = "launch"
    /\ browser = "none"
    /\ ScraperIdle
    /\ ncRaw = Null
    /\ ncOut = NoOut
    /\ ncPc = "off"
    /\ AnalyzerIdle

Next ==
    \/ Launch
    \/ NitterTry
    \/ NitterEnd
    \/ NitterResult
    \/ MobileStep
    \/ MobileResult
    \/ DesktopStep
    \/ DesktopResult
    \/ LoopIterImproved
    \/ LoopIterFirst
    \/ LoopReturn
    \/ Finish
    \/ Respond

Spec == Init /\ [][Next]_vars

\* tryMode is called once, for any strategy, with any options and at any time
\* of the call of scrapeProfile.
Labels == {NitterLabel(1), MobileLabel, DesktopLabel}

LoopInit ==
    /\ def \in Defs
    /\ lookbackDays \in 1..MaxLookback
    /\ maxScrolls \in 0..MaxScrollsOpt
    /\ timeoutMs \in 1..MaxTimeout
    /\ noNewThreshold \in 1..MaxNoNew
    /\ minTweets \in (IF def = "improved" THEN 1..MaxMinTweets ELSE {FewCollected})
    /\ nitterCount = (IF def = "improved" THEN NitterImproved ELSE NitterDefaultFirst)
    /\ startTime = StartClock
    /\ now \in StartClock..(StartClock + timeoutMs + 1)
    /\ pc = "tryMode"
    /\ browser = "open"
    /\ ScraperIdle
    /\ ncRaw = Null
    /\ ncOut = NoOut
    /\ ncPc = "off"
    /\ AnalyzerIdle

TryModeCall ==
    /\ pc = "tryMode"
    /\ modeLabel = NoLabel
    /\ \E label \in Labels : TryModeStart(label)

LoopNext ==
    \/ TryModeCall
    \/ LoopIterImproved
    \/ LoopIterFirst
    \/ LoopReturn

SpecLoop == LoopInit /\ [][LoopNext]_vars

\* normalizeCount is called with any argument of CountInputs.
CountInit ==
    /\ def \in Defs
    /\ ncRaw \in CountInputs
    /\ ncOut = NoOut
    /\ ncPc = "call"
    /\ lookbackDays = 1
    /\ maxScrolls = 0
    /\ timeoutMs = 1
    /\ noNewThreshold = 1
    /\ minTweets = 1
    /\ nitterCount = 0
    /\ now = StartClock
    /\ startTime = StartClock
    /\ pc = "off"
    /\ browser = "none"
    /\ ScraperIdle
    /\ AnalyzerIdle

CallNormalizeCount ==
    /\ ncPc = "call"
    /\ ncOut' = normalizeCount(def, ncRaw)
    /\ ncPc' = "ret"
    /\ UNCHANGED <<def, ncRaw, anVars, uiVars, optVars, now, browser, pc, inst, collected, allTweets, bestResult,
                   tm, modeLabel, page, loopVars, lastResult, result, response, histVars>>

CountNext == CallNormalizeCount

SpecCount == CountInit /\ [][CountNext]_vars

(***************************************************************************)
(* The claims about scrapeProfile and tryMode, checked under Spec.         *)
(***************************************************************************)
Started == modeLabel' # modeLabel

\* An exception was raised inside the attempt that has just returned.
Raised == swallowed \/ lastResult.error # ""

\* C1: when the improved scrapeProfile returns, no attempt that ended with
\* success = true collected more posts than scrapeProfile returns.
C1_ReturnsBestAttempt ==
    (pc = "done" /\ def = "improved") => maxYield <= Len(result.tweets)

\* C2: once the elapsed time exceeds timeoutMs, no further attempt (no call
\* of tryMode) is started, in either definition.
C2_NoAttemptAfterDeadline == [][Started => ~TimedOut(Elapsed, timeoutMs)]_vars

\* C3: when every attempt has failed, analyzeProfile answers with
\* success = false and a reason, and the result is not reported as an
\* existing account.
C3_AllFailedIsFailure ==
    (pc = "responded" /\ modeLabel # NoLabel /\ maxYield = -1)
      => /\ ~result.accountExists
         /\ response.status = 200
         /\ ~response.success
         /\ response.reason # ""

C5_OrderAndEarlyStop ==
    [][(def = "improved" /\ Started)
         => /\ Rank(def, modeLabel') > Rank(def, modeLabel)
            /\ maxYield < minTweets]_vars

\* The first Nitter instance returned minTweets posts and scrapeProfile
\* returned without another attempt.
C5_Witness ==
    /\ pc = "done"
    /\ def = "improved"
    /\ modeLabel = NitterLabel(1)
    /\ maxYield >= minTweets

\* C10: the list scrapeProfile returns is sorted by timestamp descending,
\* every post without a parseable timestamp comes after all dated posts, and
\* the undated posts keep their encounter order.
Dated(post) == post.time.s = "iso"

IndexOf(list, key) == CHOOSE i \in 1..Len(list) : list[i].permalink = key

Encountered == IF def = "improved" THEN allTweets ELSE collected

C10_SortedUndatedLast ==
    pc = "done" =>
       \A i, j \in 1..Len(result.tweets) :
          LET a == result.tweets[i]
              b == result.tweets[j]
          IN i < j =>
               /\ (Dated(a) /\ Dated(b)) => a.time.t >= b.time.t
               /\ Dated(b) => Dated(a)
               /\ (~Dated(a) /\ ~Dated(b))
                    => IndexOf(Encountered, a.permalink) < IndexOf(Encountered, b.permalink)

(***************************************************************************)
(* The claims about the extraction loops, checked under SpecLoop.          *)
(***************************************************************************)
\* C6: the extraction loop executes its body at most maxScrolls times, and
\* after maxScrolls executions it can only return.
C6_AtMostMaxScrolls ==
    /\ bodyRuns <= maxScrolls
    /\ (tm = "loop" /\ bodyRuns = maxScrolls)
         => /\ ENABLED LoopReturn
            /\ ~ENABLED LoopIterImproved
            /\ ~ENABLED LoopIterFirst

\* The body has run MaxScrollsOpt times, each run added a post, and neither
\* the cutoff nor the stall condition has been met.
C6_Witness ==
    /\ tm = "loop"
    /\ maxScrolls = MaxScrollsOpt
    /\ bodyRuns = maxScrolls
    /\ Len(tweets) = MaxScrollsOpt
    /\ ~reachedCutoff
    /\ ~broke
    /\ consecutiveNoNew = 0

\* C7: no post of the loop's list is dated before cutoffDate, every fetched
\* post that is not dated before cutoffDate is in the list, and no iteration
\* follows one that fetched a not yet seen post dated before cutoffDate.
NotBeforeCutoff(list) ==
    \A i \in 1..Len(list) : Dated(list[i]) => list[i].time.t >= cutoffDate

C7_CutoffExcludesAndStops ==
    /\ [](tm = "loop" => NotBeforeCutoff(tweets) /\ (seen \ oldKeys) \subseteq KeysOf(tweets))
    /\ [](tm = "ret" => NotBeforeCutoff(lastResult.tweets))
    /\ [][bodyRuns' > bodyRuns => oldKeys = {}]_vars

\* One batch held post 1, dated before cutoffDate, and the newer post 2.
C7_Witness ==
    /\ tm = "loop"
    /\ bodyRuns = 1
    /\ oldKeys = {1}
    /\ reachedCutoff
    /\ KeysOf(tweets) = {2}
    /\ Dated(tweets[1])

\* The body of the loop has run past its timeout test and the loop goes on.
IterationRan == tm = "loop" /\ tm' = "loop" /\ bodyRuns' = bodyRuns + 1 /\ fetches' # <<>>

\* C21: every iteration that adds no post (one whose batch request throws
\* included) increments consecutiveNoNew, every iteration that adds a post
\* resets it to 0, it stays within 0..noNewThreshold, and no iteration runs
\* once it has reached noNewThreshold.
C21_StallCounter ==
    /\ [](consecutiveNoNew \in 0..noNewThreshold)
    /\ [][IterationRan =>
            consecutiveNoNew' = IF Len(tweets') > Len(tweets) THEN 0 ELSE consecutiveNoNew + 1]_vars
    /\ [][(tm = "loop" /\ consecutiveNoNew >= noNewThreshold) => bodyRuns' = bodyRuns]_vars

\* No two posts of the list have the same key.
DistinctKeys(list) == \A i, j \in DOMAIN list : list[i].permalink = list[j].permalink => i = j

\* C23: the list scrapeProfile returns for the posts of an attempt holds no
\* two posts with the same key, and the post kept for a key is the first
\* record fetched with it: a later record with that key neither replaces nor
\* changes a post the loop holds.
C23_UniqueKeysFirstWins ==
    /\ [](tm = "loop" => DistinctKeys(tweets))
    /\ [][(tm = "loop" /\ tm' = "loop") =>
            (Len(tweets') >= Len(tweets) /\ SubSeq(tweets', 1, Len(tweets)) = tweets)]_vars
    /\ [](tm = "ret" =>
            LET final == FinalTweets(lastResult.tweets)
            IN /\ DistinctKeys(final)
               /\ {final[i] : i \in DOMAIN final} = {lastResult.tweets[i] : i \in DOMAIN lastResult.tweets})

\* The first batch added post 1; the second batch held records, all of them
\* with the key of post 1, and changed nothing.
C23_Witness ==
    /\ tm = "loop"
    /\ bodyRuns = 2
    /\ fetches[1] = "records"
    /\ KeysOf(tweets) = {1}
    /\ Len(tweets) = 1
    /\ seen = {1}
    /\ consecutiveNoNew = 1

\* C25: an iteration whose first batch request returns no record requests the
\* batch exactly once more before the iteration is counted as one without a
\* new post.
C25_EmptyBatchRetriedOnce ==
    [][(IterationRan /\ fetches'[1] = "empty") => Len(fetches') = 2]_vars

\* The post that the list holds for the key of the record t.
PostOf(list, t) == list[IndexOf(list, BatchKey(t))]

\* The record t is new to the loop and is not dated before cutoffDate.
Mergeable(t) ==
    BatchKey(t) \notin seen /\ ~(t.time.s = "iso" /\ t.time.t < cutoffDate)

\* C22: a record whose time is missing or unparseable becomes a post without
\* a timestamp (never one dated at the epoch or at Date.now()) and raises no
\* error: whatever batch the loop processes next, the posts collected so far
\* are kept, every other new record of the batch is merged with its own time,
\* and the attempt never fails in the processing of a batch.
C22_UndatedRecordKept ==
    /\ tm = "loop" =>
          \A batch \in Batches :
             LET st == ProcessBatch(def, LoopState, batch, cutoffDate)
             IN /\ ~st.threw
                /\ Len(st.tweets) >= Len(tweets)
                /\ SubSeq(st.tweets, 1, Len(tweets)) = tweets
                /\ \A i \in DOMAIN batch :
                      Mergeable(batch[i]) =>
                         /\ BatchKey(batch[i]) \in KeysOf(st.tweets)
                         /\ IF batch[i].time.s = "iso"
                            THEN PostOf(st.tweets, batch[i]).time = batch[i].time
                            ELSE ~Dated(PostOf(st.tweets, batch[i]))
    /\ tm = "ret" => lastResult.error # "process"

(***************************************************************************)
(* The claims about normalizeCount, checked under SpecCount.               *)
(***************************************************************************)
HasDigit(raw) == raw # Null /\ \E i \in 1..Len(raw) : raw[i] \in Digits

\* C8: normalizeCount returns a non-negative integer for every input, and 0
\* for null and for every string without a digit.
C8_NeverNaN ==
    ncPc = "ret" =>
       /\ ~ncOut.nan
       /\ ncOut.m >= 0
       /\ ~HasDigit(ncRaw) => ncOut = Int0(0)

\* C9: the inputs of the claim.  Blanks, then digits and commas starting with
\* a digit, then an optional point with digits after it, then blanks, an
\* optional suffix K, M or B in either case, and blanks.
Blank(s) == \A i \in 1..Len(s) : IsSpace(s[i])

IntPart(s) == s # <<>> /\ Head(s) \in Digits /\ \A i \in 1..Len(s) : s[i] \in Digits \cup {","}

AllDigits(s) == s # <<>> /\ \A i \in 1..Len(s) : s[i] \in Digits

Suffixes == {"K", "M", "B", "k", "m", "b"}

SuffixExp(c) == IF c \in {"K", "k"} THEN 3 ELSE IF c \in {"M", "m"} THEN 6 ELSE 9

\* The readings of raw as [int, frac, exp]: the integer part is raw[a..b-1],
\* the digits after the point are raw[b+1..c-1] (none when c = b), and the
\* factor is 10^exp.  A string has at most one reading.
Readings(raw) ==
    {[int |-> SubSeq(raw, q[1], q[2] - 1),
      frac |-> IF q[3] = q[2] THEN <<>> ELSE SubSeq(raw, q[2] + 1, q[3] - 1),
      exp |-> q[4]] :
        q \in {r \in (1..Len(raw)) \X (2..Len(raw) + 1) \X (2..Len(raw) + 1) \X {0, 3, 6, 9} :
                 LET a == r[1]
                     b == r[2]
                     c == r[3]
                     rest == SubSeq(raw, c, Len(raw))
                 IN /\ a < b
                    /\ b <= c
                    /\ Blank(SubSeq(raw, 1, a - 1))
                    /\ IntPart(SubSeq(raw, a, b - 1))
                    /\ c > b => raw[b] = "." /\ AllDigits(SubSeq(raw, b + 1, c - 1))
                    /\ IF r[4] = 0 THEN Blank(rest)
                       ELSE \E k \in 1..Len(rest) :
                              /\ Blank(SubSeq(rest, 1, k - 1))
                              /\ rest[k] \in Suffixes
                              /\ SuffixExp(rest[k]) = r[4]
                              /\ Blank(SubSeq(rest, k + 1, Len(rest)))}}

\* n is the value v = digits * 10^(exp - decimals) rounded to an integer:
\* v itself when v is an integer, and else an integer at most 1/2 from v.
RoundedFrom(out, digits, decimals, exp) ==
    /\ ~out.nan
    /\ IF exp >= decimals
       THEN out = Canon(digits, exp - decimals)
       ELSE LET n == out.m * Pow10(out.z)
                scale == Pow10(decimals - exp)
                diff == 2 * (n * scale - digits)
            IN -scale <= diff /\ diff <= scale

\* C9: for an input of digits with optional commas, blanks, decimal part and
\* suffix K, M or B, normalizeCount returns the number times 1e3, 1e6 or 1e9
\* (times 1 without suffix), rounded to an integer.
C9_SuffixedNumber ==
    (ncPc = "ret" /\ ncRaw # Null) =>
       \A r \in Readings(ncRaw) :
          RoundedFrom(ncOut, DigitsValue(Remove(r.int, {","}) \o r.frac), Len(r.frac), r.exp)

\* normalizeCount("1.2K") has returned 1200.
C9_Witness ==
    /\ ncPc = "ret"
    /\ ncRaw = <<"1", ".", "2", "K">>
    /\ Readings(ncRaw) # {}
    /\ ncOut = Int0(1200)

NothingElseRuns ==
    /\ ncRaw = Null
    /\ ncOut = NoOut
    /\ ncPc = "off"
    /\ lookbackDays = 1
    /\ maxScrolls = 0
    /\ timeoutMs = 1
    /\ noNewThreshold = 1
    /\ minTweets = 1
    /\ nitterCount = 0
    /\ now = StartClock
    /\ startTime = StartClock
    /\ browser = "none"
    /\ ScraperIdle

(***************************************************************************)
(* The merge of raw batches by the extraction loop of the improved         *)
(* definition, followed by the final deduplication and sort, for one       *)
(* order of two batches and for the other.                                 *)
(***************************************************************************)
RECURSIVE MergeBatches(_, _, _)
MergeBatches(st, batches, cutoff) ==
    IF batches = <<>> THEN st
    ELSE MergeBatches(ProcessBatch("improved", st, Head(batches), cutoff), Tail(batches), cutoff)

MergeThenSort(batches) ==
    FinalTweets(MergeBatches([tweets |-> <<>>, seen |-> {}, reachedCutoff |-> FALSE,
                              threw |-> FALSE], batches, 0).tweets)

MergeInit ==
    /\ def = "improved"
    /\ data \in Batches \X Batches
    /\ merged = Null
    /\ pc = "merge"
    /\ req = Null
    /\ report = Null
    /\ calls = {}
    /\ NothingElseRuns
    /\ UiIdle

MergeBothOrders ==
    /\ pc = "merge"
    /\ merged' = <<MergeThenSort(data), MergeThenSort(Reverse(data))>>
    /\ pc' = "merged"
    /\ UNCHANGED <<def, ncVars, uiVars, req, data, report, calls, optVars, now, browser, inst, collected,
                   allTweets, bestResult, tm, modeLabel, page, loopVars, lastResult, result,
                   response, histVars>>

SpecMerge == MergeInit /\ [][MergeBothOrders]_vars

\* C11: the two orders of the same two raw batches give the same final
\* collection: the same posts with the same field values in the same order.
C11_OrderIndependent == pc = "merged" => merged[1] = merged[2]

(***************************************************************************)
(* The report generator (reportGenerator.js).  data is the profile record  *)
(* generateReport receives: followers and following (read with parseInt),  *)
(* verified, joinDate and the list of posts.  A post carries the fields    *)
(* the analyses read; a field the scraper does not set is falsy (FALSE, 0).*)
(* A percentage printed by toFixed(1) is the number of its tenths.  Where  *)
(* the code puts a number in one case and a text in another, the value is  *)
(* [number |-> n] or [string |-> s].                                       *)
(***************************************************************************)
MaxTweets == 5

Undefined == "undefined"

\* plain: an original post; echo: an original post with 10 likes whose text
\* repeats; promo: a retweet with a link and seven hashtags whose text
\* repeats; scraped: a post as runExtractionLoop pushes it, with an ISO
\* time, one URL in urls and 51 retweets; linked: a post with hasLink set
\* and 501 retweets; reply: a reply with 4 replies.  hashtags is the number
\* of the hashtags of the post; no post has views.
Tweet(kind, i) ==
    [text |-> IF kind \in {"echo", "promo"} THEN <<kind, 0>> ELSE <<kind, i>>,
     hasLink |-> kind \in {"promo", "linked"},
     urls |-> IF kind \in {"promo", "scraped", "linked"} THEN 1 ELSE 0,
     hashtags |-> IF kind = "promo" THEN 7 ELSE 0,
     isReply |-> kind = "reply",
     isRetweet |-> kind = "promo",
     time |-> IF kind = "scraped" THEN Iso(1) ELSE EmptyTime,
     likes |-> IF kind = "echo" THEN 10 ELSE 0,
     retweets |-> IF kind = "scraped" THEN 51 ELSE IF kind = "linked" THEN 501 ELSE 0,
     replies |-> IF kind = "reply" THEN 4 ELSE 0]

\* The lists of at most MaxTweets posts, the posts of a kind together.
Timelines ==
    LET Rep(kind, n) == [i \in 1..n |-> Tweet(kind, i)]
        Total(c) == c[1] + c[2] + c[3] + c[4] + c[5] + c[6]
    IN {Rep("plain", c[1]) \o Rep("echo", c[2]) \o Rep("promo", c[3])
          \o Rep("scraped", c[4]) \o Rep("reply", c[5]) \o Rep("linked", c[6]) :
        c \in {k \in [1..6 -> 0..MaxTweets] : Total(k) <= MaxTweets}}

\* joinDate: missing (or 'Not specified'), a text Date cannot parse, or a
\* date that lies days days (rounded up) from now.
ReportInputs ==
    [followers : {11, 1000, 1001, 10001, 100001, 1000001},
     following : {0, 10, 2000, 6000, 200000},
     verified : BOOLEAN,
     joinDate : {[s |-> "empty", days |-> 0], [s |-> "bad", days |-> 0]}
                  \cup {[s |-> "date", days |-> d] : d \in {29, 30, 400}},
     tweets : Timelines]

\* tweets.filter(test).length, for the list of the values of test
CountIf(tests) == Cardinality({i \in DOMAIN tests : tests[i]})

\* The text calculateAccountAge returns: 'Unknown', or a number followed by
\* its unit; for an Invalid Date every comparison with diffDays is false and
\* the text is 'NaN years'.
calculateAccountAge(joinDate) ==
    IF joinDate.s = "empty" THEN [nan |-> TRUE, n |-> 0, unit |-> "Unknown"]
    ELSE IF joinDate.s = "bad" THEN [nan |-> TRUE, n |-> 0, unit |-> "years"]
    ELSE LET diffDays == joinDate.days
         IN IF diffDays < 30 THEN [nan |-> FALSE, n |-> diffDays, unit |-> "days"]
            ELSE IF diffDays < 365 THEN [nan |-> FALSE, n |-> diffDays \div 30, unit |-> "months"]
            ELSE [nan |-> FALSE, n |-> diffDays \div 365, unit |-> "years"]

\* ((part / whole) * 100).toFixed(1), in tenths; no tie occurs for a whole
\* of at most 6.
Percent(part, whole) == (part * 2000 + whole) \div (2 * whole)

analyzeTweetsInDepth(list) ==
    IF Len(list) = 0
    THEN [summary |-> "No recent tweets available for analysis", topics |-> <<>>, avgLength |-> 0,
          mediaUsage |-> 0, interactionRate |-> [number |-> 0]]
    ELSE LET replies == CountIf([k \in DOMAIN list |-> list[k].isReply])
             retweets == CountIf([k \in DOMAIN list |-> list[k].isRetweet])
             original == Len(list) - replies - retweets
             dated == CountIf([k \in DOMAIN list |-> list[k].time.s = "iso"])
         IN [summary |-> IF original * 10 > Len(list) * 7 THEN "high" ELSE "moderate",
             topics |-> <<>>,
             avgLength |-> 0,
             mediaUsage |-> Percent(0, Len(list)),
             interactionRate |-> [original |-> Percent(original, Len(list)),
                                  replies |-> Percent(replies, Len(list)),
                                  retweets |-> Percent(retweets, Len(list))],
             peakHour |-> IF dated > 0 THEN "0:00" ELSE "Unknown",
             hashtagFrequency |-> CountIf([k \in DOMAIN list |-> list[k].hashtags > 0]),
             linkSharingRate |-> CountIf([k \in DOMAIN list |-> list[k].hasLink])]

\* ratio = following > 0 ? followers / following : followers, compared with
\* num / den: 1 when the ratio is above it, -1 when below, 0 when equal.
RatioCmp(followers, following, num, den) ==
    LET lhs == followers * den
        rhs == IF following > 0 THEN num * following ELSE num
    IN IF lhs > rhs THEN 1 ELSE IF lhs < rhs THEN -1 ELSE 0

AccountTypeTiersOnly(verified, followers, following) ==
    IF verified THEN "Verified Account"
    ELSE IF followers > 1000000 THEN "Mega Influencer"
    ELSE IF followers > 100000 THEN "Major Influencer"
    ELSE IF followers > 10000 THEN "Micro Influencer"
    ELSE IF followers > 1000 THEN "Active Community Member"
    ELSE "Personal Account"

AccountType(verified, followers, following) ==
    IF verified THEN "Verified Account"
    ELSE IF followers > 1000000 THEN "Mega Influencer"
    ELSE IF followers > 100000 THEN "Major Influencer"
    ELSE IF followers > 10000 THEN "Micro Influencer"
    ELSE IF followers > 1000 THEN "Active Community Member"
    ELSE IF RatioCmp(followers, following, 10, 1) = 1 THEN "Growing Influencer"
    ELSE "Personal Account"

\* calculateConsistency: the timestamps of the dated posts here are equal,
\* so avgGap is 0 and the ratio stdDev / avgGap is NaN, below no threshold.
analyzeBehavior(d, tweetAnalysis) ==
    LET tweetCount == Len(d.tweets)
        calculateConsistency ==
            IF tweetCount < 2 THEN "Insufficient data"
            ELSE IF CountIf([k \in DOMAIN d.tweets |-> d.tweets[k].time.s = "iso"]) < 2 THEN "Insufficient data"
            ELSE "Irregular"
    IN [accountType |-> AccountType(d.verified, d.followers, d.following),
        activityPattern |-> IF tweetCount >= 8 THEN "Very Active"
                            ELSE IF tweetCount >= 5 THEN "Active"
                            ELSE IF tweetCount >= 2 THEN "Moderate"
                            ELSE IF tweetCount >= 1 THEN "Low Activity"
                            ELSE "Inactive",
        postingFrequency |-> tweetCount,
        peakTimes |-> IF "peakHour" \in DOMAIN tweetAnalysis THEN tweetAnalysis.peakHour
                      ELSE Undefined,
        consistencyScore |-> calculateConsistency]

\* Math.round(total / count) for naturals: the nearest integer, a tie going up.
RoundedAverage(total, count) == (2 * total + count) \div (2 * count)

\* avgRetweets > 100 ? 'High' : avgRetweets > 10 ? 'Medium' : 'Low'
Virality(avgRetweets) ==
    IF avgRetweets > 100 THEN "High" ELSE IF avgRetweets > 10 THEN "Medium" ELSE "Low"

\* engagementRate is ((avgEngagement / followerCount) * 100).toFixed(3) + '%',
\* here the number of its thousandths (no tie occurs for the followers of
\* ReportInputs).  [...tweets].sort(...) is stable: of the posts with the
\* highest score the first one comes first.
analyzeEngagement(list, followers) ==
    IF Len(list) = 0
    THEN [avgEngagement |-> 0, totalEngagement |-> 0, avgLikes |-> 0, avgRetweets |-> 0,
          avgReplies |-> 0, avgViews |-> 0, engagementRate |-> <<"%", 0>>,
          viralityScore |-> [number |-> 0],
          topTweets |-> <<>>]
    ELSE LET Total(field) ==
                 LET S[i \in 0..Len(list)] == IF i = 0 THEN 0 ELSE S[i - 1] + list[i][field]
                 IN S[Len(list)]
             totalEngagement == Total("likes") + Total("retweets") + Total("replies")
             avgEngagement == RoundedAverage(totalEngagement, Len(list))
             avgRetweets == RoundedAverage(Total("retweets"), Len(list))
             followerCount == IF followers = 0 THEN 1 ELSE followers
             Score(t) == t.likes + t.retweets * 2 + t.replies * 3
             RECURSIVE Sorted(_)
             Sorted(l) ==
                 IF l = <<>> THEN <<>>
                 ELSE LET top == CHOOSE i \in DOMAIN l :
                                    \A j \in DOMAIN l :
                                       \/ Score(l[j]) < Score(l[i])
                                       \/ (Score(l[j]) = Score(l[i]) /\ j >= i)
                      IN <<l[top]>> \o Sorted(SubSeq(l, 1, top - 1) \o SubSeq(l, top + 1, Len(l)))
             sortedTweets == SubSeq(Sorted(list), 1, IF Len(list) < 3 THEN Len(list) ELSE 3)
         IN [avgEngagement |-> avgEngagement, totalEngagement |-> totalEngagement,
             avgLikes |-> RoundedAverage(Total("likes"), Len(list)),
             avgRetweets |-> avgRetweets,
             avgReplies |-> RoundedAverage(Total("replies"), Len(list)),
             avgViews |-> 0,
             engagementRate |-> <<"%", (avgEngagement * 200000 + followerCount)
                                          \div (2 * followerCount)>>,
             viralityScore |-> [string |-> Virality(avgRetweets)],
             topTweets |-> [k \in DOMAIN sortedTweets |->
                              [text |-> sortedTweets[k].text, likes |-> sortedTweets[k].likes,
                               retweets |-> sortedTweets[k].retweets,
                               replies |-> sortedTweets[k].replies]]]

RiskLevelLate(n) == IF n = 0 THEN "Low" ELSE IF n <= 3 THEN "Medium" ELSE "High"

\* flags.length === 0 ? 'Low' : flags.length <= 2 ? 'Medium' : 'High'
RiskLevel(n) == IF n = 0 THEN "Low" ELSE IF n <= 2 THEN "Medium" ELSE "High"

SpamRulesAlways(count) == TRUE

\* if (tweets.length >= 5)
SpamRulesApply(count) == count >= 5

detectSuspiciousActivity(d) ==
    LET list == d.tweets
        If(cond, flag) == IF cond THEN <<flag>> ELSE <<>>
        duplicateContent ==
            Cardinality({i \in 1..Len(list) : \E j \in 1..(i - 1) : list[j].text = list[i].text})
        linkHeavy == CountIf([k \in DOMAIN list |-> list[k].hasLink])
        tags(i) == list[i].hashtags
        allHashtags == LET S[i \in 0..Len(list)] == IF i = 0 THEN 0 ELSE S[i - 1] + tags(i)
                       IN S[Len(list)]
        accountAge == calculateAccountAge(d.joinDate)
        \* parseInt(accountAge) reads the number the text starts with
        ageInDays == [nan |-> accountAge.nan, n |-> accountAge.n]
        flags ==
            If(d.following > 5000 /\ RatioCmp(d.followers, d.following, 1, 10) = -1,
               "Unusual following pattern")
            \o If(d.followers > 10000 /\ RatioCmp(d.followers, d.following, 1000, 1) = 1,
                  "Suspicious follower ratio")
            \o If(SpamRulesApply(Len(list)) /\ duplicateContent * 10 > Len(list) * 3,
                  "Repetitive content")
            \o If(SpamRulesApply(Len(list)) /\ linkHeavy * 10 > Len(list) * 8, "Link spam pattern")
            \o If(SpamRulesApply(Len(list)) /\ allHashtags > Len(list) * 5, "Hashtag spam")
            \o If(/\ accountAge.unit # "Unknown" /\ d.followers > 10000
                  /\ ~ageInDays.nan /\ ageInDays.n < 30 /\ d.followers > 10000,
                  "Rapid follower growth")
    IN [hasSuspicious |-> Len(flags) > 0,
        riskLevel |-> RiskLevel(Len(flags)),
        flags |-> flags,
        details |-> IF Len(flags) > 0 THEN flags ELSE <<"No suspicious activity detected">>]

analyzeContent(list) ==
    IF Len(list) = 0
    THEN [topics |-> <<>>, sentiment |-> [positive |-> 0, neutral |-> 0, negative |-> 0],
          types |-> <<>>, hashtagStats |-> <<>>, mentionStats |-> <<>>, linkStats |-> <<>>]
    ELSE LET types == [original |-> CountIf([k \in DOMAIN list |-> ~list[k].isReply /\ ~list[k].isRetweet]),
                       replies |-> CountIf([k \in DOMAIN list |-> list[k].isReply]),
                       retweets |-> CountIf([k \in DOMAIN list |-> list[k].isRetweet]),
                       withMedia |-> 0,
                       withLinks |-> CountIf([k \in DOMAIN list |-> list[k].hasLink])]
         IN [topics |-> <<>>,
             sentiment |-> [positive |-> <<"%", Percent(0, Len(list))>>,
                            neutral |-> <<"%", Percent(Len(list), Len(list))>>,
                            negative |-> <<"%", Percent(0, Len(list))>>],
             types |-> types,
             \* the posts with hashtags carry the same ones
             hashtagStats |->
                 LET S[i \in 0..Len(list)] == IF i = 0 THEN 0 ELSE S[i - 1] + list[i].hashtags
                     tagged == {i \in DOMAIN list : list[i].hashtags > 0}
                 IN [total |-> S[Len(list)],
                     unique |-> IF tagged = {} THEN 0 ELSE list[CHOOSE i \in tagged : TRUE].hashtags,
                     topHashtags |-> IF tagged = {} THEN <<>> ELSE <<Cardinality(tagged)>>],
             mentionStats |-> [total |-> 0, unique |-> 0, topMentions |-> <<>>],
             linkStats |-> [tweetsWithLinks |-> types.withLinks,
                            percentage |-> <<"%", Percent(types.withLinks, Len(list))>>]]

ClampScoreOff(score) == score

\* Math.max(0, Math.min(100, score))
ClampScore(score) == IF score < 0 THEN 0 ELSE IF score > 100 THEN 100 ELSE score

calculateAccountHealth(d, tweetAnalysis, suspiciousActivity) ==
    LET rate == tweetAnalysis.interactionRate
        \* parseInt(tweetAnalysis.interactionRate?.original || 0)
        avgEngagement == IF "original" \in DOMAIN rate THEN rate.original \div 10 ELSE 0
        Points(cond, n) == IF cond THEN <<n>> ELSE <<>>
        \* the points of the factors, in the order they are pushed
        factors ==
            Points(suspiciousActivity.hasSuspicious, 0 - Len(suspiciousActivity.flags) * 15)
            \o Points(d.verified, 10)
            \o (IF Len(d.tweets) >= 5 THEN <<10>> ELSE IF Len(d.tweets) < 2 THEN <<-10>> ELSE <<>>)
            \o Points(avgEngagement > 70, 15)
            \o (IF RatioCmp(d.followers, d.following, 2, 1) = 1 /\ d.followers > 100 THEN <<10>>
                ELSE IF RatioCmp(d.followers, d.following, 1, 2) = -1 /\ d.following > 1000
                THEN <<-10>> ELSE <<>>)
        Total[i \in 0..Len(factors)] == IF i = 0 THEN 100 ELSE Total[i - 1] + factors[i]
        score == ClampScore(Total[Len(factors)])
        rating == IF score >= 80 THEN "Excellent"
                  ELSE IF score >= 60 THEN "Good"
                  ELSE IF score >= 40 THEN "Fair"
                  ELSE "Poor"
    IN [score |-> score, rating |-> rating, factors |-> factors]

generateTwitterReport(d) ==
    LET tweetAnalysis == analyzeTweetsInDepth(d.tweets)
        behaviorAnalysis == analyzeBehavior(d, tweetAnalysis)
        engagementAnalysis == analyzeEngagement(d.tweets, d.followers)
        suspiciousActivity == detectSuspiciousActivity(d)
        contentAnalysis == analyzeContent(d.tweets)
        healthScore == calculateAccountHealth(d, tweetAnalysis, suspiciousActivity)
    IN [platform |-> "Twitter",
        profile |-> [joinDate |-> d.joinDate, verified |-> d.verified,
                     accountAge |-> calculateAccountAge(d.joinDate)],
        statistics |-> [followers |-> d.followers, following |-> d.following,
                        tweetsAnalyzed |-> Len(d.tweets),
                        avgEngagementPerTweet |-> engagementAnalysis.avgEngagement,
                        totalEngagement |-> engagementAnalysis.totalEngagement],
        accountHealth |-> [overallScore |-> healthScore.score, rating |-> healthScore.rating,
                           factors |-> healthScore.factors],
        behaviorAnalysis |-> [accountType |-> behaviorAnalysis.accountType,
                              activityPattern |-> behaviorAnalysis.activityPattern,
                              postingFrequency |-> behaviorAnalysis.postingFrequency,
                              peakActivityTimes |-> behaviorAnalysis.peakTimes,
                              consistencyScore |-> behaviorAnalysis.consistencyScore],
        contentAnalysis |-> [primaryTopics |-> contentAnalysis.topics,
                             sentimentDistribution |-> contentAnalysis.sentiment,
                             contentTypes |-> contentAnalysis.types,
                             hashtagUsage |-> contentAnalysis.hashtagStats,
                             mentionPattern |-> contentAnalysis.mentionStats,
                             linkSharingBehavior |-> contentAnalysis.linkStats],
        engagementAnalysis |-> [averageLikes |-> engagementAnalysis.avgLikes,
                                averageRetweets |-> engagementAnalysis.avgRetweets,
                                averageReplies |-> engagementAnalysis.avgReplies,
                                averageViews |-> engagementAnalysis.avgViews,
                                engagementRate |-> engagementAnalysis.engagementRate,
                                viralityScore |-> engagementAnalysis.viralityScore,
                                topPerformingTweets |-> engagementAnalysis.topTweets],
        suspiciousActivity |-> [hasSuspiciousPatterns |-> suspiciousActivity.hasSuspicious,
                                riskLevel |-> suspiciousActivity.riskLevel,
                                flags |-> suspiciousActivity.flags,
                                details |-> suspiciousActivity.details],
        recentActivity |-> [tweets |-> d.tweets, summary |-> tweetAnalysis.summary],
        insights |-> <<behaviorAnalysis.accountType, healthScore.rating>>,
        recommendations |-> <<"Track analytics regularly">>,
        warnings |-> IF Len(suspiciousActivity.flags) > 0 THEN suspiciousActivity.details
                     ELSE <<>>]

\* generateReport(profileData, 'twitter') is called with any data of
\* ReportInputs.
ReportInit ==
    /\ def = "improved"
    /\ data \in ReportInputs
    /\ report = Null
    /\ pc = "generate"
    /\ req = Null
    /\ merged = Null
    /\ calls = {}
    /\ NothingElseRuns
    /\ UiIdle

GenerateReport ==
    /\ pc = "generate"
    /\ report' = generateTwitterReport(data)
    /\ pc' = "generated"
    /\ UNCHANGED <<def, ncVars, uiVars, req, data, merged, calls, optVars, now, browser, inst, collected,
                   allTweets, bestResult, tm, modeLabel, page, loopVars, lastResult, result,
                   response, histVars>>

SpecReport == ReportInit /\ [][GenerateReport]_vars

(***************************************************************************)
(* The claims about the report generator, checked under SpecReport.        *)
(***************************************************************************)
SubReports == {"behaviorAnalysis", "contentAnalysis", "engagementAnalysis", "suspiciousActivity",
               "accountHealth"}

\* C12: the report of an empty post list has, in every sub-report, the
\* fields of the report of a non-empty list with defaults of the same kind:
\* the five counters of contentTypes, the empty lists topHashtags and
\* topMentions, a defined peakActivityTimes, the label 'Low' as viralityScore.
C12_EmptyListDefaults ==
    (pc = "generated" /\ data.tweets = <<>>) =>
        LET filled == generateTwitterReport([data EXCEPT !.tweets = <<Tweet("plain", 1)>>])
            content == report.contentAnalysis
        IN /\ \A sub \in SubReports : DOMAIN report[sub] = DOMAIN filled[sub]
           /\ \A part \in DOMAIN content :
                 DOMAIN content[part] = DOMAIN filled.contentAnalysis[part]
           /\ \A counter \in DOMAIN content.contentTypes : content.contentTypes[counter] = 0
           /\ content.hashtagUsage.topHashtags = <<>>
           /\ content.mentionPattern.topMentions = <<>>
           /\ report.behaviorAnalysis.peakActivityTimes # Undefined
           /\ "string" \in DOMAIN report.engagementAnalysis.viralityScore
           /\ report.engagementAnalysis.viralityScore.string = "Low"

\* C13: the health score is an integer of 0..100 whatever the verified flag,
\* the posts, the counts and the flags raised, and the rating is Excellent
\* iff score >= 80, Good iff 60 <= score < 80, Fair iff 40 <= score < 60,
\* Poor iff score < 40.
C13_HealthScoreInRange ==
    pc = "generated" =>
        LET score == report.accountHealth.overallScore
            rating == report.accountHealth.rating
        IN /\ score \in 0..100
           /\ rating \in {"Excellent", "Good", "Fair", "Poor"}
           /\ rating = "Excellent" <=> score >= 80
           /\ rating = "Good" <=> (60 <= score /\ score < 80)
           /\ rating = "Fair" <=> (40 <= score /\ score < 60)
           /\ rating = "Poor" <=> score < 40

\* The points add up to more than 100 and the score returned is 100.
C13_Witness ==
    /\ pc = "generated"
    /\ LET factors == report.accountHealth.factors
           Total[i \in 0..Len(factors)] == IF i = 0 THEN 100 ELSE Total[i - 1] + factors[i]
       IN Total[Len(factors)] > 100
    /\ report.accountHealth.overallScore = 100
    /\ report.accountHealth.rating = "Excellent"

\* C14: riskLevel depends on the number of flags only: Low iff none, Medium
\* iff one or two, High iff three or more; a flag more never lowers it; and
\* hasSuspiciousPatterns holds iff there is a flag.
C14_RiskLevelByFlagCount ==
    LET Level(risk) == CASE risk = "Low" -> 0 [] risk = "Medium" -> 1 [] risk = "High" -> 2
    IN /\ \A n \in 0..6 : Level(RiskLevel(n)) <= Level(RiskLevel(n + 1))
       /\ pc = "generated" =>
             LET n == Len(report.suspiciousActivity.flags)
                 riskLevel == report.suspiciousActivity.riskLevel
             IN /\ riskLevel = "Low" <=> n = 0
                /\ riskLevel = "Medium" <=> n \in {1, 2}
                /\ riskLevel = "High" <=> n >= 3
                /\ report.suspiciousActivity.hasSuspiciousPatterns <=> n >= 1

\* Three flags are raised and the level is High.
C14_Witness ==
    /\ pc = "generated"
    /\ Len(report.suspiciousActivity.flags) = 3
    /\ report.suspiciousActivity.riskLevel = "High"
    /\ report.suspiciousActivity.hasSuspiciousPatterns

\* C17 (as stated): the account type follows from the verified flag and the
\* follower tiers alone, and every unverified account with at most 1,000
\* followers is a Personal Account whatever its following count.
C17_TiersOnly ==
    pc = "generated" =>
        LET type == report.behaviorAnalysis.accountType
            tiered == ~data.verified /\ data.followers > 1000
        IN /\ type = "Verified Account" <=> data.verified
           /\ tiered => type = (IF data.followers > 1000000 THEN "Mega Influencer"
                                ELSE IF data.followers > 100000 THEN "Major Influencer"
                                ELSE IF data.followers > 10000 THEN "Micro Influencer"
                                ELSE "Active Community Member")
           /\ (~data.verified /\ data.followers <= 1000) => type = "Personal Account"

\* C17 (amended): as above down to 1,000 followers; an unverified account
\* with at most 1,000 followers is a Growing Influencer when its followers
\* are more than ten times its following (more than ten when it follows
\* nobody), and a Personal Account otherwise.
C17_TiersThenRatio ==
    pc = "generated" =>
        LET type == report.behaviorAnalysis.accountType
            tiered == ~data.verified /\ data.followers > 1000
            small == ~data.verified /\ data.followers <= 1000
            tenfold == IF data.following > 0 THEN data.followers > 10 * data.following
                       ELSE data.followers > 10
        IN /\ type = "Verified Account" <=> data.verified
           /\ type = "Mega Influencer" <=> (tiered /\ data.followers > 1000000)
           /\ type = "Major Influencer" <=>
                 (tiered /\ data.followers > 100000 /\ data.followers <= 1000000)
           /\ type = "Micro Influencer" <=>
                 (tiered /\ data.followers > 10000 /\ data.followers <= 100000)
           /\ type = "Active Community Member" <=> (tiered /\ data.followers <= 10000)
           /\ type = "Growing Influencer" <=> (small /\ tenfold)
           /\ type = "Personal Account" <=> (small /\ ~tenfold)

\* An unverified account with 1,000 followers that follows 10 accounts is
\* reported as a Growing Influencer.
C17_Witness ==
    /\ pc = "generated"
    /\ ~data.verified
    /\ data.followers = 1000
    /\ data.following = 10
    /\ report.behaviorAnalysis.accountType = "Growing Influencer"

\* C18: 'Rapid follower growth' is raised iff the join date is parseable, the
\* account is less than 30 days old and has more than 10000 followers; an
\* account of 30 days or more never gets the flag.
C18_RapidGrowthUnder30Days ==
    pc = "generated" =>
        LET flags == report.suspiciousActivity.flags
            raised == \E i \in 1..Len(flags) : flags[i] = "Rapid follower growth"
        IN raised <=> (/\ data.joinDate.s = "date"
                       /\ data.joinDate.days < 30
                       /\ data.followers > 10000)

(***************************************************************************)
(* analyzeProfile (profileController.js), from the request to the answer.  *)
(* A missing field of req.body and an empty one are both falsy: "" stands  *)
(* for both.  calls collects the services the handler has called.          *)
(***************************************************************************)
\* What twitterScraper.scrapeProfile returns: the profile fields, the posts as
\* the extraction loop pushes them, accountExists: true.
TwitterProfiles ==
    [followers : {11, 10001}, following : {0, 10}, verified : BOOLEAN,
     joinDate : {[s |-> "empty", days |-> 0], [s |-> "date", days |-> 400]},
     tweets : {[i \in 1..n |-> Tweet("scraped", i)] : n \in 0..MaxTweets},
     profileImage : {"", "https://img"},
     accountExists : {TRUE}]

\* What linkedinScraper.scrapeProfile returns: the complete record, or the
\* minimal record of its catch block.  Neither has a field accountExists.
LinkedInProfiles ==
    {[name |-> "Someone", headline |-> "Engineer", experiences |-> <<>>, skills |-> <<>>,
      profileImage |-> image] : image \in {"", "https://img"}}
      \cup {[name |-> "LinkedIn Profile", headline |-> "Unable to access full profile",
             experiences |-> <<>>, skills |-> <<>>, profileImage |-> "",
             error |-> "Unable to extract profile data"]}

Answer(status, error) == [status |-> status, success |-> FALSE, reason |-> error]

AnyPlatform(platform) == TRUE

\* platform === 'twitter' / platform === 'linkedin'
KnownPlatform(platform) == platform \in {"twitter", "linkedin"}

\* The first await: the fields are checked and the scraper of the platform
\* is called.
Validate ==
    /\ pc = "request"
    /\ IF req.handle = "" \/ req.platform = ""
       THEN /\ response' = Answer(400, "Missing required fields")
            /\ pc' = "responded"
            /\ UNCHANGED calls
       ELSE IF KnownPlatform(req.platform)
       THEN /\ calls' = calls \cup {<<req.platform, "scrapeProfile">>}
            /\ pc' = "scrape"
            /\ UNCHANGED response
       ELSE /\ response' = Answer(400, "Invalid platform")
            /\ pc' = "responded"
            /\ UNCHANGED calls
    /\ UNCHANGED <<def, ncVars, uiVars, req, data, report, merged, optVars, now, browser, inst, collected,
                   allTweets, bestResult, tm, modeLabel, page, loopVars, lastResult, result,
                   histVars>>

\* The report object of lines 73-94: the sections of initialReport it copies,
\* with its defaults for those initialReport lacks.
AssembleReport(d, platform, initialReport, avatarPath) ==
    LET Or(key, default) == IF key \in DOMAIN initialReport THEN initialReport[key] ELSE default
        tweetsAnalyzed == Len(d.tweets)
        S[i \in 0..tweetsAnalyzed] ==
            IF i = 0 THEN 0
            ELSE S[i - 1] + d.tweets[i].likes + d.tweets[i].retweets + d.tweets[i].replies
        totalEngagement == S[tweetsAnalyzed]
        avgEng == IF tweetsAnalyzed = 0 THEN 0 ELSE RoundedAverage(totalEngagement, tweetsAnalyzed)
    IN [platform |-> platform,
        profile |-> [joinDate |-> d.joinDate, verified |-> d.verified, avatarPath |-> avatarPath],
        \* Object.assign: a field of initialReport.statistics replaces the default
        statistics |-> Or("statistics", <<>>)
                         @@ [followersRaw |-> d.followers, followingRaw |-> d.following,
                             tweetsAnalyzed |-> tweetsAnalyzed, avgEngagementPerTweet |-> avgEng,
                             totalEngagement |-> totalEngagement],
        analysis |-> Or("analysis", <<>>),
        contentAnalysis |-> Or("contentAnalysis",
                               [contentTypes |-> [Original |-> 0, Replies |-> 0, Retweets |-> 0,
                                                  WithMedia |-> 0, WithLinks |-> 0],
                                sentimentDistribution |-> [positive |-> 0, neutral |-> 0,
                                                           negative |-> 0],
                                hashtagUsage |-> [topHashtags |-> <<>>]]),
        engagementAnalysis |-> Or("engagementAnalysis",
                                  [averageLikes |-> 0, averageRetweets |-> 0, averageReplies |-> 0,
                                   averageViews |-> 0, engagementRate |-> <<"%", 0>>,
                                   viralityScore |-> [string |-> "Low"]]),
        behaviorAnalysis |-> Or("behaviorAnalysis", <<>>),
        suspiciousActivity |-> Or("suspiciousActivity",
                                  [hasSuspiciousPatterns |-> FALSE, flags |-> <<>>,
                                   details |-> <<>>]),
        insights |-> Or("insights", <<>>),
        recommendations |-> Or("recommendations", <<>>),
        tweets |-> d.tweets,
        topTweets |-> Or("topTweets", SubSeq(d.tweets, 1, Len(d.tweets))),
        hidden |-> Or("hidden", <<>>)]

\* The scraper settles.  A rejection is answered with 500; a record without
\* a truthy accountExists with the failure 'Account not available'; for any
\* other record the report is generated and assembled, the reports directory
\* made if it is missing, the avatar fetched if the record names one (a
\* failed download is ignored), and the PDF generator called.
Scraped ==
    /\ pc = "scrape"
    /\ \E rejected \in BOOLEAN, dirExists \in BOOLEAN, avatarSaved \in BOOLEAN,
          d \in (IF req.platform = "twitter" THEN TwitterProfiles ELSE LinkedInProfiles) :
          IF rejected /\ req.platform = "twitter"
          THEN /\ response' = Answer(500, "Analysis failed")
               /\ pc' = "responded"
               /\ UNCHANGED <<data, report, calls>>
          ELSE IF ~("accountExists" \in DOMAIN d /\ d.accountExists)
          THEN /\ data' = d
               /\ response' = Answer(200, "Account not available")
               /\ pc' = "responded"
               /\ UNCHANGED <<report, calls>>
          ELSE /\ data' = d
               /\ report' = AssembleReport(d, "Twitter", generateTwitterReport(d),
                                           IF d.profileImage # "" /\ avatarSaved
                                           THEN "avatar.jpg" ELSE "")
               /\ calls' = calls \cup {<<"reportGenerator", "generateReport">>,
                                       <<"pdfGenerator", "generatePDF">>}
                             \cup (IF dirExists THEN {} ELSE {<<"fs", "mkdirSync">>})
                             \cup (IF d.profileImage # "" THEN {<<"http", "downloadImage">>}
                                   ELSE {})
               /\ pc' = "pdf"
               /\ UNCHANGED response
    /\ UNCHANGED <<def, ncVars, uiVars, req, merged, optVars, now, browser, inst, collected, allTweets,
                   bestResult, tm, modeLabel, page, loopVars, lastResult, result, histVars>>

\* generatePDF settles: res.json({ success: true, report, pdfUrl }), or the
\* catch block answers 500.
PdfSettled ==
    /\ pc = "pdf"
    /\ \E written \in BOOLEAN :
          response' = IF written THEN [status |-> 200, success |-> TRUE, reason |-> ""]
                      ELSE Answer(500, "Analysis failed")
    /\ pc' = "responded"
    /\ UNCHANGED <<def, ncVars, uiVars, req, data, report, merged, calls, optVars, now, browser, inst,
                   collected, allTweets, bestResult, tm, modeLabel, page, loopVars, lastResult,
                   result, histVars>>

AnalyzeInit ==
    /\ def = "improved"
    /\ req \in [handle : {"", "someone"}, platform : {"", "twitter", "linkedin", "facebook"}]
    /\ data = Null
    /\ report = Null
    /\ merged = Null
    /\ calls = {}
    /\ pc = "request"
    /\ NothingElseRuns
    /\ UiIdle

SpecAnalyze == AnalyzeInit /\ [][Validate \/ Scraped \/ PdfSettled]_vars

(***************************************************************************)
(* The claims about analyzeProfile, checked under SpecAnalyze.             *)
(***************************************************************************)
\* C15: a report answered with success=true for a Twitter profile has every
\* section of the schema (profile, statistics, behaviorAnalysis,
\* contentAnalysis, engagementAnalysis, suspiciousActivity with riskLevel,
\* accountHealth with score and rating, insights, recommendations, warnings)
\* and every section generateTwitterReport computed.
C15_AllSectionsPresent ==
    (pc = "responded" /\ response.success /\ req.platform = "twitter") =>
        /\ {"profile", "statistics", "behaviorAnalysis", "contentAnalysis", "engagementAnalysis",
            "suspiciousActivity", "accountHealth", "insights", "recommendations", "warnings"}
              \subseteq DOMAIN report
        /\ DOMAIN generateTwitterReport(data) \subseteq DOMAIN report
        /\ "riskLevel" \in DOMAIN report.suspiciousActivity
        /\ {"overallScore", "rating"} \subseteq DOMAIN report.accountHealth

\* C16: when the LinkedIn scraper returned a record, complete or minimal, the
\* answer is success=true with a report that has engagementAnalysis and
\* suspiciousActivity, and never the 'Account not available' failure.
C16_LinkedInSucceeds ==
    (pc = "responded" /\ req.platform = "linkedin" /\ req.handle # "") =>
        /\ response.success
        /\ response.reason # "Account not available"
        /\ {"engagementAnalysis", "suspiciousActivity"} \subseteq DOMAIN report

\* C20: a request without handle or platform, or with a platform other than
\* 'twitter' and 'linkedin', is answered with status 400, and no scraper, no
\* report generator, no PDF generator and no file write is called for it.
C20_BadRequestStartsNothing ==
    (req.handle = "" \/ req.platform \notin {"twitter", "linkedin"}) =>
        /\ calls = {}
        /\ pc \in {"request", "responded"}
        /\ report = Null
        /\ pc = "responded" => (response.status = 400 /\ ~response.success)

\* A request for platform 'facebook' has been answered with 400.
C20_Witness ==
    /\ pc = "responded"
    /\ req.handle = "someone"
    /\ req.platform = "facebook"
    /\ response.status = 400
    /\ calls = {}

(***************************************************************************)
(* Permalink enrichment of the first definition of scrapeProfile: one      *)
(* post of collected goes through the body of the enrichment loop.         *)
(***************************************************************************)
\* A post of collected: its counts are numbers normalizeCount returned.
EnrichInputs ==
    LET PostCounts == {Int0(0), Int0(5)}
    IN [permalink : {"", "href"}, time : {EmptyTime, Iso(1)},
        likes : PostCounts, retweets : PostCounts, replies : PostCounts]

\* What page.evaluate returns on the permalink page: the datetime of the
\* first time element and the texts of the counts ('' for what is not shown).
PageReports ==
    LET PageCounts == {<<>>, <<"7">>, <<"1", "K">>}
    IN [time : {EmptyTime, Iso(2)}, likes : PageCounts, retweets : PageCounts,
        replies : PageCounts]

\* !t.likes: a count is falsy when it is 0 or NaN.
Falsy(count) == count.nan \/ count.m = 0

\* String(raw) for a count that is a natural number: its decimal digits.
NumberToString(count) ==
    LET RECURSIVE DigitsOf(_)
        DigitsOf(n) ==
            IF n < 10 THEN <<CHOOSE c \in Digits : DigitVal(c) = n>>
            ELSE Append(DigitsOf(n \div 10), CHOOSE c \in Digits : DigitVal(c) = n % 10)
    IN DigitsOf(count.m * Pow10(count.z))

\* normalizeCount(enriched.likes || tweet.likes || 0)
EnrichCount(shown, held) ==
    NormalizeCountFirst(IF shown # <<>> THEN shown
                        ELSE IF ~Falsy(held) THEN NumberToString(held)
                        ELSE <<"0">>)

\* enrichTweetFromPermalink once page.goto and page.evaluate have succeeded
enrichTweetFromPermalink(tweet, enriched) ==
    [tweet EXCEPT !.time = IF enriched.time.s # "empty" THEN enriched.time ELSE tweet.time,
                  !.likes = EnrichCount(enriched.likes, tweet.likes),
                  !.retweets = EnrichCount(enriched.retweets, tweet.retweets),
                  !.replies = EnrichCount(enriched.replies, tweet.replies)]

\* if ((!t.likes || !t.retweets || !t.replies) && t.permalink)
NeedsEnrichment(t) ==
    (Falsy(t.likes) \/ Falsy(t.retweets) \/ Falsy(t.replies)) /\ t.permalink # ""

EnrichInit ==
    /\ def = "first"
    /\ data \in EnrichInputs
    /\ report = Null
    /\ pc = "enrich"
    /\ req = Null
    /\ merged = Null
    /\ calls = {}
    /\ NothingElseRuns
    /\ UiIdle

\* One pass of the body of the enrichment loop; report is the post afterwards.
\* The visit fails when page.goto or page.evaluate throws.
EnrichOne ==
    /\ pc = "enrich"
    /\ pc' = "enriched"
    /\ UNCHANGED <<def, ncVars, uiVars, req, data, merged, optVars, now, browser, inst, collected,
                   allTweets, bestResult, tm, modeLabel, page, loopVars, lastResult, result,
                   response, histVars>>
    /\ IF NeedsEnrichment(data)
       THEN \/ /\ calls' = {"visit failed"}
               /\ report' = data
            \/ \E enriched \in PageReports :
                  /\ calls' = {"visited"}
                  /\ report' = enrichTweetFromPermalink(data, enriched)
       ELSE /\ calls' = {}
            /\ report' = data

SpecEnrich == EnrichInit /\ [][EnrichOne]_vars

\* C24: enrichment changes only the empty or zero fields of a post: a time or
\* count that was populated has the same value afterwards, and a failed visit
\* leaves the post as it was.
C24_OnlyEmptyFieldsChange ==
    pc = "enriched" =>
       /\ data.time.s # "empty" => report.time = data.time
       /\ ~Falsy(data.likes) => report.likes = data.likes
       /\ ~Falsy(data.retweets) => report.retweets = data.retweets
       /\ ~Falsy(data.replies) => report.replies = data.replies
       /\ calls = {"visit failed"} => report = data

(***************************************************************************)
(* More claims about the report generator, checked under SpecReport.       *)
(***************************************************************************)
\* The report raises the flag.
Flagged(flag) ==
    \E i \in DOMAIN report.suspiciousActivity.flags : report.suspiciousActivity.flags[i] = flag

\* The number of the posts of data that pass the test, given as the set of
\* their positions.
Share(positions) == [count |-> Cardinality(positions), of |-> Len(data.tweets)]

\* More than tenths tenths of the posts.
MoreThan(share, tenths) == share.count * 10 > share.of * tenths

\* C26: each rule of detectSuspiciousActivity fires exactly on its own
\* condition, whatever the other rules do: 'Unusual following pattern' iff
\* following > 5000 and followers / following < 0.1; 'Suspicious follower
\* ratio' iff followers > 10000 and followers / following > 1000 (the quotient
\* by 0 is above every number); with at least 5 posts 'Repetitive content'
\* iff more than 30% of the posts repeat the text of an earlier post, 'Link
\* spam pattern' iff more than 80% of the posts have hasLink, 'Hashtag spam'
\* iff the hashtags are more than 5 per post; with fewer than 5 posts none of
\* these three.
C26_RulesIndependent ==
    pc = "generated" =>
       LET list == data.tweets
           enough == Len(list) >= 5
           repeats == {i \in DOMAIN list : \E j \in 1..(i - 1) : list[j].text = list[i].text}
           links == {i \in DOMAIN list : list[i].hasLink}
           hashtags == LET S[i \in 0..Len(list)] == IF i = 0 THEN 0 ELSE S[i - 1] + list[i].hashtags
                       IN S[Len(list)]
       IN /\ Flagged("Unusual following pattern")
               <=> (data.following > 5000 /\ data.followers * 10 < data.following)
          /\ Flagged("Suspicious follower ratio")
               <=> (/\ data.followers > 10000
                    /\ (data.following = 0 \/ data.followers > 1000 * data.following))
          /\ Flagged("Repetitive content") <=> (enough /\ MoreThan(Share(repeats), 3))
          /\ Flagged("Link spam pattern") <=> (enough /\ MoreThan(Share(links), 8))
          /\ Flagged("Hashtag spam") <=> (enough /\ hashtags > 5 * Len(list))

\* The following rule, the repetition rule and the hashtag rule have fired
\* together on a list of 5 posts that does not meet the link rule.
C26_Witness ==
    /\ pc = "generated"
    /\ Len(data.tweets) = 5
    /\ Flagged("Unusual following pattern")
    /\ Flagged("Repetitive content")
    /\ Flagged("Hashtag spam")
    /\ ~Flagged("Link spam pattern")

\* C27: for a non-empty list the virality label is High iff the retweets
\* divided by the number of posts, not rounded, are above 100, Medium iff
\* they are above 10 and at most 100, and Low otherwise.
C27_ViralityByExactAverage ==
    (pc = "generated" /\ Len(data.tweets) > 0) =>
       LET list == data.tweets
           retweets == LET S[i \in 0..Len(list)] == IF i = 0 THEN 0 ELSE S[i - 1] + list[i].retweets
                       IN S[Len(list)]
       IN report.engagementAnalysis.viralityScore
            = [string |-> IF retweets > 100 * Len(list) THEN "High"
                          ELSE IF retweets > 10 * Len(list) THEN "Medium" ELSE "Low"]

\* C28: a post the scraper returned with at least one URL counts as a post
\* with a link: contentTypes.withLinks counts it, and a list of at least 5
\* posts of which more than 80% have a URL gets the flag 'Link spam pattern'.
C28_ScrapedUrlsAreLinks ==
    (pc = "generated" /\ Len(data.tweets) > 0) =>
       LET list == data.tweets
           withUrls == {i \in DOMAIN list : list[i].urls > 0}
       IN /\ report.contentAnalysis.contentTypes.withLinks >= Cardinality(withUrls)
          /\ (Len(list) >= 5 /\ MoreThan(Share(withUrls), 8)) => Flagged("Link spam pattern")

(***************************************************************************)
(* The two web front ends: the React component App (App.js) and the page   *)
(* script (script.js).  A request is the POST to /api/analyze; report is   *)
(* the report on display (the state report of App, the visible             *)
(* reportSection of the page), <<"report", h>> for the report of handle h. *)
(***************************************************************************)
\* At most MaxRequests requests are sent.
MaxRequests == 2

\* At most MaxShows notifications are shown.
MaxShows == 3

\* The trimmed text of the input field.
Handles == {"", "a", "b"}

\* How a request settles: 200 with success true; 200 with success false
\* (account not available); a status of 400 or 500 with a message; or no
\* answer at all (the network call rejects).
Answers == {"report", "unavailable", "failed", "unreachable"}

Notification(type, message) == [type |-> type, message |-> message]

\* onChange={(e) => setHandle(e.target.value)}; profileInput.value
TypeHandle ==
    /\ pc = "front"
    /\ \E text \in Handles \ {handle} : handle' = text
    /\ UNCHANGED <<def, ncVars, anVars, frontEnd, loading, sent, inFlight, shows, optVars, now,
                   browser, pc, inst, collected, allTweets, bestResult, tm, modeLabel, page,
                   loopVars, lastResult, result, response, histVars>>

\* analyzeProfile up to its await: an empty handle is refused with a
\* notification; otherwise the loading state is set, the report on display
\* is cleared and the request is sent.
analyzeProfile ==
    /\ pc = "front"
    /\ IF handle = ""
       THEN /\ Len(shows) < MaxShows
            /\ shows' = Append(shows, Notification("error", "Please enter a profile handle or URL"))
            /\ UNCHANGED <<loading, report, sent, inFlight>>
       ELSE /\ Len(sent) < MaxRequests
            /\ loading' = TRUE
            /\ report' = Null
            /\ sent' = Append(sent, handle)
            /\ inFlight' = inFlight \cup {Len(sent) + 1}
            /\ UNCHANGED shows
    /\ UNCHANGED <<def, ncVars, req, data, merged, calls, frontEnd, handle, optVars, now, browser,
                   pc, inst, collected, allTweets, bestResult, tm, modeLabel, page, loopVars,
                   lastResult, result, response, histVars>>

\* <button onClick={analyzeProfile} disabled={loading}>; analyzeBtn.disabled:
\* a disabled button receives no click.
ButtonEnabled(disabled) == ~disabled

ClickAnalyze == ButtonEnabled(loading) /\ analyzeProfile

\* handleKeyPress / the keypress listener of profileInput: if (e.key === 'Enter') analyzeProfile()
PressEnter ==
    /\ frontEnd \in {"react", "script"}
    /\ analyzeProfile

\* A request settles and analyzeProfile runs from its await to its end: try,
\* catch and finally.
RequestSettles ==
    /\ pc = "front"
    /\ \E id \in inFlight, answer \in Answers :
          /\ inFlight' = inFlight \ {id}
          /\ loading' = FALSE
          /\ IF answer = "report"
             THEN /\ report' = <<"report", sent[id]>>
                  /\ shows' = Append(shows, Notification("success", "Report generated"))
             ELSE IF answer = "unavailable" /\ frontEnd = "react"
             THEN UNCHANGED <<report, shows>>
             ELSE /\ shows' = Append(shows, Notification("error", answer))
                  /\ UNCHANGED report
    /\ UNCHANGED <<def, ncVars, req, data, merged, calls, frontEnd, handle, sent, optVars, now,
                   browser, pc, inst, collected, allTweets, bestResult, tm, modeLabel, page,
                   loopVars, lastResult, result, response, histVars>>

\* Either front end has loaded: the field is empty and nothing is pending.
FrontInit ==
    /\ def = "improved"
    /\ frontEnd \in {"react", "script"}
    /\ handle = ""
    /\ loading = FALSE
    /\ sent = <<>>
    /\ inFlight = {}
    /\ shows = <<>>
    /\ req = Null
    /\ data = Null
    /\ report = Null
    /\ merged = Null
    /\ calls = {}
    /\ response = NoResponse
    /\ pc = "front"
    /\ ncRaw = Null
    /\ ncOut = NoOut
    /\ ncPc = "off"
    /\ lookbackDays = 1
    /\ maxScrolls = 0
    /\ timeoutMs = 1
    /\ noNewThreshold = 1
    /\ minTweets = 1
    /\ nitterCount = 0
    /\ now = StartClock
    /\ startTime = StartClock
    /\ browser = "none"
    /\ ScraperIdle

SpecFront == FrontInit /\ [][TypeHandle \/ ClickAnalyze \/ PressEnter \/ RequestSettles]_vars

\* C29: at most one analyze request is in flight; the loading state is set
\* exactly while a request is pending; and the report on display is the
\* report of the handle submitted last.
C29_OneRequestInFlight ==
    /\ Cardinality(inFlight) <= 1
    /\ loading <=> inFlight # {}
    /\ report # Null => report[2] = sent[Len(sent)]

\* C30: when a request settles the loading state is cleared and exactly one
\* outcome is shown: the report together with a success notification, or an
\* error notification.
C30_OneVisibleOutcome ==
    [][(pc = "front" /\ Cardinality(inFlight') < Cardinality(inFlight)) =>
          /\ ~loading'
          /\ Len(shows') = Len(shows) + 1
          /\ \/ shows'[Len(shows')].type = "success" /\ report' # Null
             \/ shows'[Len(shows')].type = "error" /\ report' = report]_vars

====
